---- MODULE Spec2Model ----
(***************************************************************************)
(* Model of the SeedVR2 inference orchestration core:                      *)
(*   src/core/generation.py   generation_loop, generation_step, cut_videos *)
(*   src/core/infer.py        VideoDiffusionInfer.inference, vae_decode    *)
(* A frame is modelled by its index in the input clip (1..N); 0 stands for *)
(* an all-zero frame.  A video is a sequence of frames.                    *)
(***************************************************************************)
EXTENDS Integers, Sequences, FiniteSets, TLC

\* ----- bounds of the model --------------------------------------------
MaxFrames == 7
MaxBatch == 4
MaxOverlap == 2
MaxCutLen == 5
MaxSteps == 4
MaxLatentFrames == 3
MaxChannels == 2
MaxVramGB == 30
GbUnits == 2
MaxBlocks == 2
MaxReservedGB == 4
MaxLatentSide == 4
MaxTileSide == 3
MaxBatchFrames == 4
MaxRopeModules == 2
MaxConfigBatch == 12
ResUnits == 2
MaxResolution == 4
PartialDen == 4
FrameValues == {1, 2}

\* ----- program constants ----------------------------------------------
\* generation.py:420  the 4n+1 pad applies only to clips of at least 5 frames
MinPadFrames == 5
\* infer.py:450  temporal_downsample_factor (default)
TemporalDown == 4

VARIABLES
    \* arguments of generation_loop and module state
    images,             \* the input clip, a sequence of frames
    batch_size,
    temporal_overlap,   \* argument; forced to 0 when step <= 0
    preserve_vram,
    tiled_vae,
    frame_save_callback,    \* TRUE when a callback is given
    progress_callback,
    COMFYUI_AVAILABLE,
    interrupted,        \* the host's cancellation flag
    \* runner
    vae,                \* "none" (runner.vae is None), "cpu" or "cuda"
    dit,                \* "cpu", "cuda" (whole model) or "paged" (block swap)
    blockswap_active,   \* runner._blockswap_active
    blocks_have_swap,   \* dit.blocks[0] carries _original_forward
    memory_fraction,    \* per-process memory fraction, in percent
    \* locals of generation_loop
    pc,
    step,
    total_batches,
    batch_count,
    start_idx,
    end_idx,
    transformed_video,
    ori_length,
    cond_latents,       \* latent frames T_l of the encoded batch
    sample,             \* decoded frames of the batch
    batch_samples,
    text_embeds,        \* TRUE while text_pos_embeds/text_neg_embeds are bound
    cache_emptied,      \* TRUE once the finally block emptied the allocator
    raised,             \* the exception in flight: its kind, and where it was raised
    result,             \* the returned tensor (a sequence of frames)
    \* locals of generation_step / inference
    use_blockswap,
    dit_vram_flag,
    \* observation: events of the current batch iteration, callback calls
    trace,
    save_calls,
    progress_calls,
    encoded,            \* temporal lengths handed to vae_encode
    \* cut_videos applied on its own
    cutIn,
    cutOut,
    \* the dtype pipeline of one batch
    model_dtype,        \* dtype of the loaded DiT weights
    config_vae_dtype,   \* config.vae.dtype
    compute_dtype,      \* generation_loop
    autocast_dtype,     \* generation_loop
    vae_dtype,          \* generation_loop
    step_dtype,         \* generation_step: dtype
    step_autocast,      \* generation_step: autocast_dtype
    target_dtype,       \* inference
    decode_dtype,       \* inference
    text_dtype,         \* dtype of the text embeddings
    latents_dtype,      \* dtype of noise and conditioning latents
    autocast,           \* stack of the active autocast contexts
    samples_dtype,      \* dtype of the returned samples
    ppc,                \* position in the pure-function specifications
    \* a function of the module called on its own
    fn,                 \* its name ("none" before the call)
    fnArgs,             \* its arguments
    fnResult            \* what it returned

args == <<images, batch_size, preserve_vram, tiled_vae, frame_save_callback,
          progress_callback, COMFYUI_AVAILABLE, blockswap_active, blocks_have_swap>>
locals == <<step, total_batches, batch_count, start_idx, end_idx,
            transformed_video, ori_length, cond_latents, sample>>
inferLocals == <<use_blockswap, dit_vram_flag>>
observed == <<save_calls, progress_calls, encoded>>
cutVars == <<cutIn, cutOut>>
precVars == <<model_dtype, config_vae_dtype, compute_dtype, autocast_dtype,
              vae_dtype, step_dtype, step_autocast, target_dtype,
              decode_dtype, text_dtype, latents_dtype, autocast, samples_dtype>>
callVars == <<fn, fnArgs, fnResult>>
pureVars == <<cutVars, precVars, ppc, callVars>>
vars == <<args, temporal_overlap, interrupted, vae, dit, memory_fraction, pc,
          locals, batch_samples, text_embeds, cache_emptied, raised, result,
          inferLocals, trace, observed, pureVars>>

NoError == [kind |-> "none", at |-> "none"]

\* ----- helpers --------------------------------------------------------
Min(a, b) == IF a < b THEN a ELSE b

Slice(s, lo, hi) == [i \in 1..(hi - lo) |-> s[lo + i]]   \* s[lo:hi], 0-based

RECURSIVE Flatten(_)
Flatten(ss) ==
    IF ss = <<>> THEN <<>>
    ELSE IF Len(ss) = 1 THEN ss[1]
    ELSE LET half == Len(ss) \div 2
         IN  Flatten(SubSeq(ss, 1, half)) \o Flatten(SubSeq(ss, half + 1, Len(ss)))

\* ----- cut_videos -------------------------------------------------------
\* Variant: the pad stops at the next multiple of 4 (the "+ 1" is lost).
cut_videos_multiple_of_4(videos) ==
    LET t == Len(videos)
        padding_needed == (4 - (t % 4)) % 4
    IN  IF t % 4 = 1
        THEN videos
        ELSE videos \o [i \in 1..padding_needed |-> videos[t]]

\* Variant: the pad is filled with zero frames instead of the last frame.
cut_videos_zero_pad(videos) ==
    LET t == Len(videos)
        padding_needed == ((4 - (t % 4)) % 4) + 1
    IN  IF t % 4 = 1
        THEN videos
        ELSE videos \o [i \in 1..padding_needed |-> 0]

\* generation.py:174-201
cut_videos(videos) ==
    LET t == Len(videos)
        padding_needed == ((4 - (t % 4)) % 4) + 1
    IN  IF t % 4 = 1
        THEN videos
        ELSE videos \o [i \in 1..padding_needed |-> videos[t]]

\* ----- the temporal VAE (external collaborator) ------------------------
\* Latent frames of a clip of T frames: T_l = (T - 1)/temporal_down + 1 when
\* T = 1 (mod 4); for any other T the rounding is the VAE's own.
LatentFrames(T) ==
    IF (T - 1) % TemporalDown = 0
    THEN {(T - 1) \div TemporalDown + 1}
    ELSE {(T - 1) \div TemporalDown + 1, (T - 1) \div TemporalDown + 2}

\* Frames decoded from T_l latent frames: (T_l - 1) * vt + 1.
DecodedFrames(tl) == (tl - 1) * TemporalDown + 1

\* The decoded clip: frame i of the output reconstructs frame i of the video
\* that was encoded (the tail of a longer output repeats the last frame).
Decoded(video, tl) ==
    [i \in 1..DecodedFrames(tl) |->
        IF i <= Len(video) THEN video[i] ELSE video[Len(video)]]

\* The pure-function variables while generation_loop is the subject.
CutIdle ==
    /\ cutIn = <<>>
    /\ cutOut = <<>>

PrecisionIdle ==
    /\ model_dtype = "none"
    /\ config_vae_dtype = "none"
    /\ compute_dtype = "none"
    /\ autocast_dtype = "none"
    /\ vae_dtype = "none"
    /\ step_dtype = "none"
    /\ step_autocast = "none"
    /\ target_dtype = "none"
    /\ decode_dtype = "none"
    /\ text_dtype = "none"
    /\ latents_dtype = "none"
    /\ autocast = <<>>
    /\ samples_dtype = "none"

CallIdle ==
    /\ fn = "none"
    /\ fnArgs = <<>>
    /\ fnResult = <<>>

PureIdle ==
    /\ CutIdle
    /\ PrecisionIdle
    /\ CallIdle
    /\ ppc = "idle"

\* ----- generation_loop ------------------------------------------------
Clips == {[i \in 1..n |-> i] : n \in 0..MaxFrames}

Init ==
    /\ images \in Clips
    /\ batch_size \in 1..MaxBatch
    /\ temporal_overlap \in 0..MaxOverlap
    /\ preserve_vram \in BOOLEAN
    /\ tiled_vae \in BOOLEAN
    /\ frame_save_callback \in BOOLEAN
    /\ progress_callback \in BOOLEAN
    /\ COMFYUI_AVAILABLE \in BOOLEAN
    /\ interrupted = FALSE
    /\ vae \in {"none", "cpu"}
    /\ blockswap_active \in BOOLEAN
    /\ blocks_have_swap \in BOOLEAN
    /\ dit = IF blocks_have_swap THEN "paged" ELSE "cpu"
    /\ memory_fraction = 100
    /\ pc = "setup"
    /\ step = 0
    /\ total_batches = 0
    /\ batch_count = 0
    /\ start_idx = 0
    /\ end_idx = 0
    /\ transformed_video = <<>>
    /\ ori_length = 0
    /\ cond_latents = 0
    /\ sample = <<>>
    /\ batch_samples = <<>>
    /\ text_embeds = FALSE
    /\ cache_emptied = FALSE
    /\ raised = NoError
    /\ result = <<>>
    /\ use_blockswap = FALSE
    /\ dit_vram_flag = FALSE
    /\ trace = <<>>
    /\ save_calls = <<>>
    /\ progress_calls = <<>>
    /\ encoded = <<>>
    /\ PureIdle

N == Len(images)

\* An exception leaves the try block: control passes to the finally block.
Raise(kind) ==
    /\ pc' = "finally"
    /\ raised' = [kind |-> kind, at |-> pc]

\* Variant: a non-positive step is replaced but the overlap is kept.
Setup_KeepsOverlap ==
    /\ pc = "setup"
    /\ text_embeds' = TRUE
    /\ step' = IF batch_size - temporal_overlap <= 0
               THEN batch_size
               ELSE batch_size - temporal_overlap
    /\ total_batches' = (N + step' - 1) \div step'
    /\ pc' = "loop"
    /\ UNCHANGED <<args, temporal_overlap, interrupted, vae, dit,
                   memory_fraction, batch_count, start_idx, end_idx,
                   transformed_video, ori_length, cond_latents, sample,
                   batch_samples, cache_emptied, raised, result, inferLocals,
                   trace, observed, pureVars>>

\* lines 286-335: configuration, text embeddings, step and total_batches
Setup ==
    /\ pc = "setup"
    /\ text_embeds' = TRUE
    /\ IF batch_size - temporal_overlap <= 0
       THEN /\ step' = batch_size
            /\ temporal_overlap' = 0
       ELSE /\ step' = batch_size - temporal_overlap
            /\ UNCHANGED temporal_overlap
    /\ total_batches' = (N + step' - 1) \div step'
    /\ pc' = "loop"
    /\ UNCHANGED <<args, interrupted, vae, dit, memory_fraction, batch_count,
                   start_idx, end_idx, transformed_video, ori_length,
                   cond_latents, sample, batch_samples, cache_emptied, raised,
                   result, inferLocals, trace, observed, pureVars>>

\* lines 286-326 run outside the try block: an error there (the embeddings
\* file is missing, the device is out of memory) skips the finally block.
SetupRaises ==
    /\ pc = "setup"
    /\ pc' = "raised"
    /\ raised' = [kind |-> "error", at |-> "setup"]
    /\ UNCHANGED <<args, temporal_overlap, interrupted, vae, dit,
                   memory_fraction, locals, batch_samples, text_embeds,
                   cache_emptied, result, inferLocals, trace, observed, pureVars>>

batch_idx == batch_count * step

\* line 350: for batch_count, batch_idx in enumerate(range(0, len(images), step))
LoopHead ==
    /\ pc = "loop"
    /\ IF batch_idx < N
       THEN /\ pc' = "rebuild"
            /\ trace' = <<>>
       ELSE /\ pc' = "finally"
            /\ UNCHANGED trace
    /\ UNCHANGED <<args, temporal_overlap, interrupted, vae, dit,
                   memory_fraction, locals, batch_samples, text_embeds,
                   cache_emptied, raised, result, inferLocals, observed, pureVars>>

\* lines 353-373: re-create the VAE and load its weights to CPU
RebuildVAE ==
    /\ pc = "rebuild"
    /\ IF preserve_vram /\ vae = "none"
       THEN /\ vae' = "cpu"
            /\ trace' = trace \o <<"create_vae", "load_vae_weights">>
       ELSE UNCHANGED <<vae, trace>>
    /\ pc' = "probe"
    /\ UNCHANGED <<args, temporal_overlap, interrupted, dit, memory_fraction,
                   locals, batch_samples, text_embeds, cache_emptied, raised,
                   result, inferLocals, observed, pureVars>>

\* lines 356-365: the object is created, then loading the checkpoint fails
RebuildVAERaises ==
    /\ pc = "rebuild"
    /\ preserve_vram /\ vae = "none"
    /\ vae' = "cpu"
    /\ trace' = Append(trace, "create_vae")
    /\ Raise("error")
    /\ UNCHANGED <<args, temporal_overlap, interrupted, dit, memory_fraction,
                   locals, batch_samples, text_embeds, cache_emptied,
                   result, inferLocals, observed, pureVars>>

\* lines 375-376: comfy.model_management.throw_exception_if_processing_interrupted()
Probe ==
    /\ pc = "probe"
    /\ IF COMFYUI_AVAILABLE
       THEN /\ trace' = Append(trace, "probe")
            /\ IF interrupted
               THEN Raise("interrupted")
               ELSE /\ pc' = "range"
                    /\ UNCHANGED raised
       ELSE /\ pc' = "range"
            /\ UNCHANGED <<trace, raised>>
    /\ UNCHANGED <<args, temporal_overlap, interrupted, vae, dit,
                   memory_fraction, locals, batch_samples, text_embeds,
                   cache_emptied, result, inferLocals, observed, pureVars>>

\* The host requests cancellation (at any time while the loop runs).
HostInterrupt ==
    /\ COMFYUI_AVAILABLE
    /\ ~interrupted
    /\ pc \notin {"setup", "finally", "concat", "returned", "raised"}
    /\ interrupted' = TRUE
    /\ UNCHANGED <<args, temporal_overlap, vae, dit, memory_fraction, pc,
                   locals, batch_samples, text_embeds, cache_emptied, raised,
                   result, inferLocals, trace, observed, pureVars>>

\* Variant: the loop never stops early on the overlap condition.
BatchRange_NoEarlyStop ==
    /\ pc = "range"
    /\ start_idx' = batch_idx
    /\ end_idx' = Min(batch_idx + batch_size, N)
    /\ pc' = "transform"
    /\ UNCHANGED <<args, temporal_overlap, interrupted, vae, dit,
                   memory_fraction, step, total_batches, batch_count,
                   transformed_video, ori_length, cond_latents, sample,
                   batch_samples, text_embeds, cache_emptied, raised, result,
                   inferLocals, trace, observed, pureVars>>

\* Variant: the loop stops at any trailing batch shorter than batch_size.
BatchRange_StopsOnShort ==
    /\ pc = "range"
    /\ start_idx' = batch_idx
    /\ end_idx' = Min(batch_idx + batch_size, N)
    /\ IF batch_idx # 0 /\ end_idx' - start_idx' < batch_size
       THEN pc' = "finally"
       ELSE pc' = "transform"
    /\ UNCHANGED <<args, temporal_overlap, interrupted, vae, dit,
                   memory_fraction, step, total_batches, batch_count,
                   transformed_video, ori_length, cond_latents, sample,
                   batch_samples, text_embeds, cache_emptied, raised, result,
                   inferLocals, trace, observed, pureVars>>

\* lines 377-390: the frame range of the batch, and the early stop
BatchRange ==
    /\ pc = "range"
    /\ start_idx' = batch_idx
    /\ end_idx' = Min(batch_idx + batch_size, N)
    /\ IF batch_idx # 0 /\ end_idx' - start_idx' <= temporal_overlap
       THEN pc' = "finally"
       ELSE pc' = "transform"
    /\ UNCHANGED <<args, temporal_overlap, interrupted, vae, dit,
                   memory_fraction, step, total_batches, batch_count,
                   transformed_video, ori_length, cond_latents, sample,
                   batch_samples, text_embeds, cache_emptied, raised, result,
                   inferLocals, trace, observed, pureVars>>

\* Variant: the pad is applied whatever the length of the clip.
NeedsPad_AnyClip(total_frames, t) == t % 4 # 1

\* generation.py:420: the 4n+1 pad is applied only to clips of >= 5 frames
NeedsPad(total_frames, t) == total_frames >= MinPadFrames /\ t % 4 # 1

\* lines 402-425: slice, move to device, transform, record the length, pad
Transform ==
    /\ pc = "transform"
    /\ LET video == Slice(images, start_idx, end_idx)
           t == Len(video)
       IN  /\ ori_length' = t
           /\ IF NeedsPad(N, t)
              THEN /\ transformed_video' = cut_videos(video)
                   /\ trace' = trace \o <<"transform", "pad">>
              ELSE /\ transformed_video' = video
                   /\ trace' = Append(trace, "transform")
    /\ pc' = "vae_to_device"
    /\ UNCHANGED <<args, temporal_overlap, interrupted, vae, dit,
                   memory_fraction, step, total_batches, batch_count,
                   start_idx, end_idx, cond_latents, sample, batch_samples,
                   text_embeds, cache_emptied, raised, result, inferLocals,
                   observed, pureVars>>

\* line 430: runner.vae.to(device); AttributeError when runner.vae is None
VaeToDevice ==
    /\ pc = "vae_to_device"
    /\ IF vae = "none"
       THEN /\ Raise("error")
            /\ UNCHANGED <<vae, trace>>
       ELSE /\ vae' = "cuda"
            /\ trace' = Append(trace, "vae_to_gpu")
            /\ pc' = "encode"
            /\ UNCHANGED raised
    /\ UNCHANGED <<args, temporal_overlap, interrupted, dit, memory_fraction,
                   locals, batch_samples, text_embeds, cache_emptied, result,
                   inferLocals, observed, pureVars>>

\* lines 436-437: cond_latents = runner.vae_encode([transformed_video])
Encode ==
    /\ pc = "encode"
    /\ encoded' = Append(encoded, Len(transformed_video))
    /\ \E tl \in LatentFrames(Len(transformed_video)) : cond_latents' = tl
    /\ trace' = Append(trace, "encode")
    /\ pc' = "step"
    /\ UNCHANGED <<args, temporal_overlap, interrupted, vae, dit,
                   memory_fraction, step, total_batches, batch_count,
                   start_idx, end_idx, transformed_video, ori_length, sample,
                   batch_samples, text_embeds, cache_emptied, raised, result,
                   inferLocals, save_calls, progress_calls, pureVars>>

\* ----- generation_step and VideoDiffusionInfer.inference --------------
\* generation.py:136-142 and infer.py:523-529, 590
GenerationStep ==
    /\ pc = "step"
    /\ use_blockswap' = blockswap_active
    /\ dit_vram_flag' = (preserve_vram /\ ~blockswap_active)
    /\ trace' = IF blockswap_active
                THEN Append(trace, "release_reserved")
                ELSE trace
    /\ pc' = "prepare"
    /\ UNCHANGED <<args, temporal_overlap, interrupted, vae, dit,
                   memory_fraction, locals, batch_samples, text_embeds,
                   cache_emptied, raised, result, observed, pureVars>>

\* infer.py:622-624
blockswap_is_active ==
    blockswap_active \/ (use_blockswap /\ blocks_have_swap)

\* infer.py:592-643: memory preparation before sampling
MemoryPrepare ==
    /\ pc = "prepare"
    /\ IF dit_vram_flag
       THEN /\ vae' = IF cond_latents > 1 THEN "cpu" ELSE vae
            /\ dit' = IF blockswap_is_active THEN dit ELSE "cuda"
            /\ trace' = trace
                  \o (IF cond_latents > 1 THEN <<"vae_to_cpu">> ELSE <<>>)
                  \o (IF blockswap_is_active THEN <<>> ELSE <<"dit_to_gpu">>)
       ELSE UNCHANGED <<vae, dit, trace>>
    /\ pc' = "fraction"
    /\ UNCHANGED <<args, temporal_overlap, interrupted, memory_fraction,
                   locals, batch_samples, text_embeds, cache_emptied, raised,
                   result, inferLocals, observed, pureVars>>

\* infer.py:676-682: the cap chosen from the reserved memory after release
FractionCaps == {80, 60}

\* Variant: the cap is imposed whether or not the blocks are wrapped.
MemoryFraction_AlwaysCaps ==
    /\ pc = "fraction"
    /\ IF use_blockswap
       THEN /\ memory_fraction' \in FractionCaps
            /\ trace' = trace \o <<"release_reserved", "set_fraction">>
       ELSE UNCHANGED <<memory_fraction, trace>>
    /\ pc' = "sample"
    /\ UNCHANGED <<args, temporal_overlap, interrupted, vae, dit, locals,
                   batch_samples, text_embeds, cache_emptied, raised, result,
                   inferLocals, observed, pureVars>>

\* infer.py:648-690: release reserved memory and cap the memory fraction
MemoryFraction ==
    /\ pc = "fraction"
    /\ IF use_blockswap
       THEN /\ IF ~blocks_have_swap
               THEN memory_fraction' = 100
               ELSE memory_fraction' \in FractionCaps
            /\ trace' = trace \o <<"release_reserved", "set_fraction">>
       ELSE UNCHANGED <<memory_fraction, trace>>
    /\ pc' = "sample"
    /\ UNCHANGED <<args, temporal_overlap, interrupted, vae, dit, locals,
                   batch_samples, text_embeds, cache_emptied, raised, result,
                   inferLocals, observed, pureVars>>

\* infer.py:719-763: the sampler loop under autocast
Sample ==
    /\ pc = "sample"
    /\ trace' = Append(trace, "sample")
    /\ pc' = "post_sample"
    /\ UNCHANGED <<args, temporal_overlap, interrupted, vae, dit,
                   memory_fraction, locals, batch_samples, text_embeds,
                   cache_emptied, raised, result, inferLocals, observed,
                   pureVars>>

\* infer.py:779-812: offload the DiT, clean up, bring the VAE back
PostSample ==
    /\ pc = "post_sample"
    /\ IF dit_vram_flag
       THEN /\ dit' = "cpu"
            /\ vae' = IF cond_latents > 1 THEN "cuda" ELSE vae
            /\ trace' = trace \o <<"dit_to_cpu">>
                  \o (IF cond_latents > 1 THEN <<"clear_vram_cache">> ELSE <<>>)
                  \o (IF blockswap_active
                      THEN <<"synchronize", "drop_cached_tensors", "empty_cache">>
                      ELSE <<>>)
                  \o (IF cond_latents > 1 THEN <<"vae_to_gpu">> ELSE <<>>)
       ELSE UNCHANGED <<vae, dit, trace>>
    /\ pc' = "decode"
    /\ UNCHANGED <<args, temporal_overlap, interrupted, memory_fraction,
                   locals, batch_samples, text_embeds, cache_emptied, raised,
                   result, inferLocals, observed, pureVars>>

\* infer.py:821-828, 166-279 (standard decode) and 282-406 (tiled decode:
\* both of its branches read preserve_vram, which _tiled_vae_decode does not
\* define, so the call raises NameError before the VAE decodes anything)
Decode ==
    /\ pc = "decode"
    /\ IF tiled_vae
       THEN /\ Raise("error")
            /\ UNCHANGED <<sample, trace>>
       ELSE /\ sample' = Decoded(transformed_video, cond_latents)
            /\ trace' = Append(trace, "decode")
            /\ pc' = "reset_fraction"
            /\ UNCHANGED raised
    /\ UNCHANGED <<args, temporal_overlap, interrupted, vae, dit,
                   memory_fraction, step, total_batches, batch_count,
                   start_idx, end_idx, transformed_video, ori_length,
                   cond_latents, batch_samples, text_embeds, cache_emptied,
                   result, inferLocals, observed, pureVars>>

\* infer.py:860-867: restore the memory fraction and return
ResetFraction ==
    /\ pc = "reset_fraction"
    /\ IF use_blockswap
       THEN /\ memory_fraction' = 100
            /\ trace' = Append(trace, "reset_fraction")
       ELSE UNCHANGED <<memory_fraction, trace>>
    /\ pc' = "post"
    /\ UNCHANGED <<args, temporal_overlap, interrupted, vae, dit, locals,
                   batch_samples, text_embeds, cache_emptied, raised, result,
                   inferLocals, observed, pureVars>>

\* A GPU operation of the batch fails (out of memory): the error leaves the
\* operation unchanged and reaches the finally block of generation_loop.
RaisingOps == {"transform", "encode", "sample", "decode", "post"}

OperationRaises ==
    /\ pc \in RaisingOps
    /\ Raise("error")
    /\ UNCHANGED <<args, temporal_overlap, interrupted, vae, dit,
                   memory_fraction, locals, batch_samples, text_embeds,
                   cache_emptied, result, inferLocals, trace, observed,
                   pureVars>>

\* ----- generation_loop, after generation_step -------------------------
\* Variant: the sample is kept whole, the pad frames included.
PostProcess_NoTrim ==
    /\ pc = "post"
    /\ sample' = sample
    /\ batch_samples' = Append(batch_samples, sample')
    /\ trace' = Append(trace, "trim")
    /\ pc' = "save_cb"
    /\ UNCHANGED <<args, temporal_overlap, interrupted, vae, dit,
                   memory_fraction, step, total_batches, batch_count,
                   start_idx, end_idx, transformed_video, ori_length,
                   cond_latents, text_embeds, cache_emptied, raised, result,
                   inferLocals, observed, pureVars>>

\* generation.py:459-487: trim to the recorded length, colour fix, keep
PostProcess ==
    /\ pc = "post"
    /\ sample' = IF ori_length < Len(sample)
                 THEN SubSeq(sample, 1, ori_length)
                 ELSE sample
    /\ batch_samples' = Append(batch_samples, sample')
    /\ trace' = Append(trace, "trim")
    /\ pc' = "save_cb"
    /\ UNCHANGED <<args, temporal_overlap, interrupted, vae, dit,
                   memory_fraction, step, total_batches, batch_count,
                   start_idx, end_idx, transformed_video, ori_length,
                   cond_latents, text_embeds, cache_emptied, raised, result,
                   inferLocals, observed, pureVars>>

\* Variant: the batches are numbered from 1.
SaveCall_OneBased == [batch |-> batch_count + 1, start |-> start_idx,
                      end |-> start_idx + Len(sample)]

SaveCall == [batch |-> batch_count, start |-> start_idx,
             end |-> start_idx + Len(sample)]

\* Variant: the callback is skipped for the first batch.
FrameSaveCallback_SkipsFirst ==
    /\ pc = "save_cb"
    /\ IF frame_save_callback /\ batch_count > 0
       THEN /\ save_calls' = Append(save_calls, SaveCall)
            /\ trace' = Append(trace, "save_cb")
       ELSE UNCHANGED <<save_calls, trace>>
    /\ pc' = "progress_cb"
    /\ UNCHANGED <<args, temporal_overlap, interrupted, vae, dit,
                   memory_fraction, locals, batch_samples, text_embeds,
                   cache_emptied, raised, result, inferLocals, progress_calls,
                   encoded, pureVars>>

\* generation.py:491-495
FrameSaveCallback ==
    /\ pc = "save_cb"
    /\ IF frame_save_callback
       THEN /\ save_calls' = Append(save_calls, SaveCall)
            /\ trace' = Append(trace, "save_cb")
       ELSE UNCHANGED <<save_calls, trace>>
    /\ pc' = "progress_cb"
    /\ UNCHANGED <<args, temporal_overlap, interrupted, vae, dit,
                   memory_fraction, locals, batch_samples, text_embeds,
                   cache_emptied, raised, result, inferLocals, progress_calls,
                   encoded, pureVars>>

\* generation.py:495: the host's callback is invoked and raises
FrameSaveCallbackRaises ==
    /\ pc = "save_cb"
    /\ frame_save_callback
    /\ save_calls' = Append(save_calls, SaveCall)
    /\ trace' = Append(trace, "save_cb")
    /\ Raise("error")
    /\ UNCHANGED <<args, temporal_overlap, interrupted, vae, dit,
                   memory_fraction, locals, batch_samples, text_embeds,
                   cache_emptied, result, inferLocals, progress_calls,
                   encoded, pureVars>>

ProgressCall == [batch_number |-> batch_count + 1, total |-> total_batches,
                 frames |-> end_idx - start_idx]

\* generation.py:500-502
ProgressCallback ==
    /\ pc = "progress_cb"
    /\ IF progress_callback
       THEN /\ progress_calls' = Append(progress_calls, ProgressCall)
            /\ trace' = Append(trace, "progress_cb")
       ELSE UNCHANGED <<progress_calls, trace>>
    /\ pc' = "teardown"
    /\ UNCHANGED <<args, temporal_overlap, interrupted, vae, dit,
                   memory_fraction, locals, batch_samples, text_embeds,
                   cache_emptied, raised, result, inferLocals, save_calls,
                   encoded, pureVars>>

\* generation.py:502: the host's callback is invoked and raises
ProgressCallbackRaises ==
    /\ pc = "progress_cb"
    /\ progress_callback
    /\ progress_calls' = Append(progress_calls, ProgressCall)
    /\ trace' = Append(trace, "progress_cb")
    /\ Raise("error")
    /\ UNCHANGED <<args, temporal_overlap, interrupted, vae, dit,
                   memory_fraction, locals, batch_samples, text_embeds,
                   cache_emptied, result, inferLocals, save_calls, encoded,
                   pureVars>>

\* Variant: the iteration ends without tearing the VAE down.
Teardown_KeepsVae ==
    /\ pc = "teardown"
    /\ batch_count' = batch_count + 1
    /\ pc' = "loop"
    /\ UNCHANGED <<args, temporal_overlap, interrupted, vae, dit,
                   memory_fraction, step, total_batches, start_idx, end_idx,
                   transformed_video, ori_length, cond_latents, sample,
                   batch_samples, text_embeds, cache_emptied, raised, result,
                   inferLocals, trace, observed, pureVars>>

\* Variant: the VAE is moved to the CPU instead of being destroyed.
Teardown_MovesToCpu ==
    /\ pc = "teardown"
    /\ IF preserve_vram
       THEN /\ vae' = "cpu"
            /\ trace' = Append(trace, "teardown")
       ELSE UNCHANGED <<vae, trace>>
    /\ batch_count' = batch_count + 1
    /\ pc' = "loop"
    /\ UNCHANGED <<args, temporal_overlap, interrupted, dit, memory_fraction,
                   step, total_batches, start_idx, end_idx, transformed_video,
                   ori_length, cond_latents, sample, batch_samples,
                   text_embeds, cache_emptied, raised, result, inferLocals,
                   observed, pureVars>>

\* generation.py:528-538: tear the VAE down, then the next iteration
Teardown ==
    /\ pc = "teardown"
    /\ IF preserve_vram
       THEN /\ vae' = "none"
            /\ trace' = Append(trace, "teardown")
       ELSE UNCHANGED <<vae, trace>>
    /\ batch_count' = batch_count + 1
    /\ pc' = "loop"
    /\ UNCHANGED <<args, temporal_overlap, interrupted, dit, memory_fraction,
                   step, total_batches, start_idx, end_idx, transformed_video,
                   ori_length, cond_latents, sample, batch_samples,
                   text_embeds, cache_emptied, raised, result, inferLocals,
                   observed, pureVars>>

\* Variant: the finally block also sends the DiT back to the CPU.
Cleanup_MovesDit ==
    /\ pc = "finally"
    /\ text_embeds' = FALSE
    /\ vae' = IF preserve_vram /\ vae # "none" THEN "none" ELSE vae
    /\ dit' = "cpu"
    /\ cache_emptied' = TRUE
    /\ pc' = IF raised # NoError THEN "raised" ELSE "concat"
    /\ UNCHANGED <<args, temporal_overlap, interrupted, memory_fraction,
                   locals, batch_samples, raised, result, inferLocals, trace,
                   observed, pureVars>>

\* generation.py:546-570: the finally block
Cleanup ==
    /\ pc = "finally"
    /\ text_embeds' = FALSE
    /\ vae' = IF preserve_vram /\ vae # "none" THEN "none" ELSE vae
    /\ cache_emptied' = TRUE
    /\ pc' = IF raised # NoError THEN "raised" ELSE "concat"
    /\ UNCHANGED <<args, temporal_overlap, interrupted, dit, memory_fraction,
                   locals, batch_samples, raised, result, inferLocals, trace,
                   observed, pureVars>>

\* generation.py:586
block_size == 500

\* Variant: the last batch of every block is left out of the copy.
RECURSIVE CopyBlocks_ShortBlocks(_, _)
CopyBlocks_ShortBlocks(samples, block_start) ==
    IF block_start >= Len(samples)
    THEN <<>>
    ELSE LET block_end == Min(block_start + block_size, Len(samples))
         IN  Flatten(Slice(samples, block_start, block_end - 1))
                 \o CopyBlocks_ShortBlocks(samples, block_end)

\* generation.py:589-611: copy the batches into the result, block by block
RECURSIVE CopyBlocks(_, _)
CopyBlocks(samples, block_start) ==
    IF block_start >= Len(samples)
    THEN <<>>
    ELSE LET block_end == Min(block_start + block_size, Len(samples))
         IN  Flatten(Slice(samples, block_start, block_end))
                 \o CopyBlocks(samples, block_end)

\* generation.py:572-637
Concat ==
    /\ pc = "concat"
    /\ result' = IF Len(batch_samples) > 0
                 THEN CopyBlocks(batch_samples, 0)
                 ELSE <<>>
    /\ pc' = "returned"
    /\ UNCHANGED <<args, temporal_overlap, interrupted, vae, dit,
                   memory_fraction, locals, batch_samples, text_embeds,
                   cache_emptied, raised, inferLocals, trace, observed,
                   pureVars>>

Next ==
    \/ Setup
    \/ SetupRaises
    \/ LoopHead
    \/ RebuildVAE
    \/ RebuildVAERaises
    \/ Probe
    \/ HostInterrupt
    \/ BatchRange
    \/ Transform
    \/ VaeToDevice
    \/ Encode
    \/ GenerationStep
    \/ MemoryPrepare
    \/ MemoryFraction
    \/ Sample
    \/ PostSample
    \/ Decode
    \/ ResetFraction
    \/ OperationRaises
    \/ PostProcess
    \/ FrameSaveCallback
    \/ FrameSaveCallbackRaises
    \/ ProgressCallback
    \/ ProgressCallbackRaises
    \/ Teardown
    \/ Cleanup
    \/ Concat

Spec == Init /\ [][Next]_vars

\* ----- generation_loop on long clips -----------------------------------
\* The batching inputs (frames, batch_size, temporal_overlap): the small ones
\* and the 91-frame clip cut into batches of 89 overlapping by 8.
LongClip == <<91, 89, 8>>

BatchInputs ==
    {<<n, b, o>> : n \in 0..MaxFrames, b \in 1..MaxBatch, o \in 0..MaxOverlap}
        \cup {LongClip}

\* generation_loop entered without tiling and without block-swap
BatchesInit ==
    /\ \E in \in BatchInputs :
          /\ images = [i \in 1..in[1] |-> i]
          /\ batch_size = in[2]
          /\ temporal_overlap = in[3]
    /\ preserve_vram \in BOOLEAN
    /\ tiled_vae = FALSE
    /\ frame_save_callback \in BOOLEAN
    /\ progress_callback \in BOOLEAN
    /\ COMFYUI_AVAILABLE \in BOOLEAN
    /\ interrupted = FALSE
    /\ vae \in {"none", "cpu"}
    /\ blockswap_active = FALSE
    /\ blocks_have_swap = FALSE
    /\ dit = "cpu"
    /\ memory_fraction = 100
    /\ pc = "setup"
    /\ step = 0
    /\ total_batches = 0
    /\ batch_count = 0
    /\ start_idx = 0
    /\ end_idx = 0
    /\ transformed_video = <<>>
    /\ ori_length = 0
    /\ cond_latents = 0
    /\ sample = <<>>
    /\ batch_samples = <<>>
    /\ text_embeds = FALSE
    /\ cache_emptied = FALSE
    /\ raised = NoError
    /\ result = <<>>
    /\ use_blockswap = FALSE
    /\ dit_vram_flag = FALSE
    /\ trace = <<>>
    /\ save_calls = <<>>
    /\ progress_calls = <<>>
    /\ encoded = <<>>
    /\ PureIdle

SpecBatches == BatchesInit /\ [][Next]_vars

\* ----- calculate_optimal_batch_params ------------------------------------
\* generation.py:721: sum(((i // 4) + 1) * 4 + 1 - i
\*                        for i in range(batch_size, total_frames, batch_size))
RECURSIVE PaddingWaste(_, _, _)
PaddingWaste(i, total_frames, bs) ==
    IF i >= total_frames
    THEN 0
    ELSE (((i \div 4) + 1) * 4 + 1 - i) + PaddingWaste(i + bs, total_frames, bs)

\* generation.py:691-728
calculate_optimal_batch_params(total_frames, bs, overlap) ==
    LET clamped == bs - overlap <= 0
        optimal_batches == {x \in 1..199 : x % 4 = 1 /\ x <= total_frames}
    IN  [step |-> IF clamped THEN bs ELSE bs - overlap,
         temporal_overlap |-> IF clamped THEN 0 ELSE overlap,
         best_batch |->
             IF optimal_batches # {}
             THEN CHOOSE x \in optimal_batches :
                      \A y \in optimal_batches : y <= x
             ELSE 1,
         padding_waste |->
             IF bs \notin optimal_batches
             THEN PaddingWaste(bs, total_frames, bs)
             ELSE 0,
         is_optimal |-> bs \in optimal_batches]

\* The caller asks for the parameters of the run it is about to start.
CalculateOptimalBatchParams ==
    /\ pc = "setup"
    /\ fn = "none"
    /\ fn' = "calculate_optimal_batch_params"
    /\ fnArgs' = <<N, batch_size, temporal_overlap>>
    /\ fnResult' = calculate_optimal_batch_params(N, batch_size,
                                                   temporal_overlap)
    /\ UNCHANGED <<args, temporal_overlap, interrupted, vae, dit,
                   memory_fraction, pc, locals, batch_samples, text_embeds,
                   cache_emptied, raised, result, inferLocals, trace,
                   observed, cutVars, precVars, ppc>>

ParamsNext ==
    \/ Next
    \/ CalculateOptimalBatchParams

SpecParams == BatchesInit /\ [][ParamsNext]_vars

\* ----- cut_videos on its own ------------------------------------------
\* generation_loop at rest, while a pure function is the subject.
LoopIdle ==
    /\ images = <<>>
    /\ batch_size = 1
    /\ temporal_overlap = 0
    /\ preserve_vram = FALSE
    /\ tiled_vae = FALSE
    /\ frame_save_callback = FALSE
    /\ progress_callback = FALSE
    /\ COMFYUI_AVAILABLE = FALSE
    /\ interrupted = FALSE
    /\ vae = "cpu"
    /\ blockswap_active = FALSE
    /\ blocks_have_swap = FALSE
    /\ dit = "cpu"
    /\ memory_fraction = 100
    /\ pc = "idle"
    /\ step = 0
    /\ total_batches = 0
    /\ batch_count = 0
    /\ start_idx = 0
    /\ end_idx = 0
    /\ transformed_video = <<>>
    /\ ori_length = 0
    /\ cond_latents = 0
    /\ sample = <<>>
    /\ batch_samples = <<>>
    /\ text_embeds = FALSE
    /\ cache_emptied = FALSE
    /\ raised = NoError
    /\ result = <<>>
    /\ use_blockswap = FALSE
    /\ dit_vram_flag = FALSE
    /\ trace = <<>>
    /\ save_calls = <<>>
    /\ progress_calls = <<>>
    /\ encoded = <<>>

loopVars == <<args, temporal_overlap, interrupted, vae, dit, memory_fraction,
              pc, locals, batch_samples, text_embeds, cache_emptied, raised,
              result, inferLocals, trace, observed>>

\* Videos of 1..MaxCutLen frames; 0 (the zero frame) is no input frame.
CutInputs == UNION {[1..n -> FrameValues] : n \in 1..MaxCutLen}

CutInit ==
    /\ LoopIdle
    /\ PrecisionIdle
    /\ CallIdle
    /\ cutIn \in CutInputs
    /\ cutOut = <<>>
    /\ ppc = "cut"

\* generation.py:174-201
ApplyCutVideos ==
    /\ ppc = "cut"
    /\ cutOut' = cut_videos(cutIn)
    /\ ppc' = "cut_done"
    /\ UNCHANGED <<loopVars, cutIn, precVars, callVars>>

CutNext == ApplyCutVideos

SpecCut == CutInit /\ [][CutNext]_vars

\* ----- the dtype pipeline of one batch ----------------------------------
FP8 == {"float8_e4m3fn", "float8_e5m2"}

\* "no_parameters": next(runner.dit.parameters()) raises StopIteration
ModelDTypes == FP8 \cup {"float16", "bfloat16", "float32", "float64",
                         "no_parameters"}

VaeDTypes == {"bfloat16", "float16", "float32"}

PrecisionInit ==
    /\ LoopIdle
    /\ CutIdle
    /\ CallIdle
    /\ model_dtype \in ModelDTypes
    /\ config_vae_dtype \in VaeDTypes
    /\ compute_dtype = "none"
    /\ autocast_dtype = "none"
    /\ vae_dtype = "none"
    /\ step_dtype = "none"
    /\ step_autocast = "none"
    /\ target_dtype = "none"
    /\ decode_dtype = "none"
    /\ text_dtype = "none"
    /\ latents_dtype = "none"
    /\ autocast = <<>>
    /\ samples_dtype = "none"
    /\ ppc = "p_loop"

\* generation.py:251-271 and 89-98: FP8 and other dtypes use BFloat16
AdaptiveDtype(d) ==
    IF d \in FP8 THEN "bfloat16"
    ELSE IF d = "float16" THEN "float16"
    ELSE "bfloat16"

\* infer.py:543-551
InferenceTargetDtype(d) ==
    IF d \in FP8 THEN "float16"
    ELSE IF d = "float16" THEN "bfloat16"
    ELSE "bfloat16"

\* infer.py:775-776
DecodeDtype(vd, td) ==
    IF vd = "float16" \/ td = "float16" THEN "float16" ELSE vd

\* generation.py:245-271, 318-319: detect the dtype (falling back to BFloat16
\* when detection fails), load the text embeddings in compute_dtype
LoopPrecision ==
    /\ ppc = "p_loop"
    /\ compute_dtype' = AdaptiveDtype(model_dtype)
    /\ autocast_dtype' = AdaptiveDtype(model_dtype)
    /\ vae_dtype' = AdaptiveDtype(model_dtype)
    /\ text_dtype' = compute_dtype'
    /\ ppc' = "p_encode"
    /\ UNCHANGED <<loopVars, callVars, cutVars, model_dtype, config_vae_dtype,
                   step_dtype, step_autocast, target_dtype, decode_dtype,
                   latents_dtype, autocast, samples_dtype>>

\* generation.py:436-437: the encode runs under autocast(autocast_dtype)
EncodePrecision ==
    /\ ppc = "p_encode"
    /\ autocast' = <<autocast_dtype>>
    /\ ppc' = "p_step"
    /\ UNCHANGED <<loopVars, callVars, cutVars, model_dtype, config_vae_dtype,
                   compute_dtype, autocast_dtype, vae_dtype, step_dtype,
                   step_autocast, target_dtype, decode_dtype, text_dtype,
                   latents_dtype, samples_dtype>>

\* generation.py:85-111: generation_step detects the dtype again and casts
\* noise and conditioning latents to it
StepPrecision ==
    /\ ppc = "p_step"
    /\ autocast' = <<>>
    /\ IF model_dtype = "no_parameters"
       THEN /\ ppc' = "p_raised"
            /\ UNCHANGED <<step_dtype, step_autocast, latents_dtype>>
       ELSE /\ step_dtype' = AdaptiveDtype(model_dtype)
            /\ step_autocast' = AdaptiveDtype(model_dtype)
            /\ latents_dtype' = step_dtype'
            /\ ppc' = "p_step_autocast"
    /\ UNCHANGED <<loopVars, callVars, cutVars, model_dtype, config_vae_dtype,
                   compute_dtype, autocast_dtype, vae_dtype, target_dtype,
                   decode_dtype, text_dtype, samples_dtype>>

\* generation.py:139-140: with torch.autocast("cuda", autocast_dtype)
StepAutocast ==
    /\ ppc = "p_step_autocast"
    /\ autocast' = <<step_autocast>>
    /\ ppc' = "p_infer"
    /\ UNCHANGED <<loopVars, callVars, cutVars, model_dtype, config_vae_dtype,
                   compute_dtype, autocast_dtype, vae_dtype, step_dtype,
                   step_autocast, target_dtype, decode_dtype, text_dtype,
                   latents_dtype, samples_dtype>>

\* infer.py:538-587: inference derives target_dtype and casts the text
\* embeddings, the noise and the conditioning latents to it
InferencePrecision ==
    /\ ppc = "p_infer"
    /\ target_dtype' = InferenceTargetDtype(model_dtype)
    /\ text_dtype' = target_dtype'
    /\ latents_dtype' = target_dtype'
    /\ ppc' = "p_sampler"
    /\ UNCHANGED <<loopVars, callVars, cutVars, model_dtype, config_vae_dtype,
                   compute_dtype, autocast_dtype, vae_dtype, step_dtype,
                   step_autocast, decode_dtype, autocast, samples_dtype>>

\* infer.py:719: with torch.autocast("cuda", target_dtype) around the sampler
SamplerAutocast ==
    /\ ppc = "p_sampler"
    /\ autocast' = Append(autocast, target_dtype)
    /\ ppc' = "p_sampling"
    /\ UNCHANGED <<loopVars, callVars, cutVars, model_dtype, config_vae_dtype,
                   compute_dtype, autocast_dtype, vae_dtype, step_dtype,
                   step_autocast, target_dtype, decode_dtype, text_dtype,
                   latents_dtype, samples_dtype>>

\* infer.py:764-828: leave the sampler's autocast, choose the decode dtype
DecodePrecision ==
    /\ ppc = "p_sampling"
    /\ autocast' = SubSeq(autocast, 1, Len(autocast) - 1)
    /\ decode_dtype' = DecodeDtype(config_vae_dtype, target_dtype)
    /\ ppc' = "p_decoded"
    /\ UNCHANGED <<loopVars, callVars, cutVars, model_dtype, config_vae_dtype,
                   compute_dtype, autocast_dtype, vae_dtype, step_dtype,
                   step_autocast, target_dtype, text_dtype, latents_dtype,
                   samples_dtype>>

\* infer.py:842-867: the samples are converted to Float16 and returned
ReturnPrecision ==
    /\ ppc = "p_decoded"
    /\ samples_dtype' = "float16"
    /\ autocast' = <<>>
    /\ ppc' = "p_done"
    /\ UNCHANGED <<loopVars, callVars, cutVars, model_dtype, config_vae_dtype,
                   compute_dtype, autocast_dtype, vae_dtype, step_dtype,
                   step_autocast, target_dtype, decode_dtype, text_dtype,
                   latents_dtype>>

PrecisionNext ==
    \/ LoopPrecision
    \/ EncodePrecision
    \/ StepPrecision
    \/ StepAutocast
    \/ InferencePrecision
    \/ SamplerAutocast
    \/ DecodePrecision
    \/ ReturnPrecision

SpecPrecision == PrecisionInit /\ [][PrecisionNext]_vars

\* ----- the guidance scale of the sampler steps --------------------------
\* Scales are counted in tenths: 10 is the scale 1.0 of infer.py:759.
UnitScale == 10

CfgScales == {10, 75}

\* Variant: the comparison with partial is strict.
GuidanceScale_Strict(i, steps, partial_num, cfg_scale) ==
    IF (i + 1) * PartialDen < partial_num * steps
    THEN cfg_scale
    ELSE UnitScale

\* infer.py:755-760, with partial = partial_num / PartialDen:
\* cfg_scale if (args.i + 1) / len(self.sampler.timesteps) <= partial else 1.0
GuidanceScale(i, steps, partial_num, cfg_scale) ==
    IF (i + 1) * PartialDen <= partial_num * steps
    THEN cfg_scale
    ELSE UnitScale

\* inference is about to sample: fnArgs holds the number of timesteps, the
\* numerator of config.diffusion.cfg.partial and cfg_scale
GuidanceInit ==
    /\ LoopIdle
    /\ CutIdle
    /\ PrecisionIdle
    /\ ppc = "idle"
    /\ fn = "sample"
    /\ fnArgs \in [steps : 1..MaxSteps, partial : 0..PartialDen,
                   cfg_scale : CfgScales]
    /\ fnResult = <<>>

\* infer.py:728-763: step i of the sampler calls the guidance dispatcher;
\* fnResult collects the scale of each step
SamplerStep ==
    /\ fn = "sample"
    /\ Len(fnResult) < fnArgs.steps
    /\ fnResult' = Append(fnResult,
                          GuidanceScale(Len(fnResult), fnArgs.steps,
                                        fnArgs.partial, fnArgs.cfg_scale))
    /\ UNCHANGED <<loopVars, cutVars, precVars, ppc, fn, fnArgs>>

GuidanceNext == SamplerStep

SpecGuidance == GuidanceInit /\ [][GuidanceNext]_vars

\* ----- get_condition ------------------------------------------------------
\* A latent is a sequence of T_l frames, each a sequence of C_l channel
\* values at one spatial position; 0 is the value torch.zeros writes.
LatentValues == {1, 2}

Latents == UNION {[1..t -> [1..c -> LatentValues]] :
                      t \in 1..MaxLatentFrames, c \in 1..MaxChannels}

\* generation.py:130: latent_blur is the latent with noise added
Blurred(latent) ==
    [f \in 1..Len(latent) |->
        [ch \in 1..Len(latent[f]) |-> latent[f][ch] + 2]]

Tasks == {"t2v", "i2v", "v2v", "sr"}

\* the task tags tried: the four tasks and two tags that are none of them
TaskTags == Tasks \cup {"t2i", "inpaint"}

\* infer.py:76: cond = torch.zeros([t, h, w, c + 1])
ZeroCond(t, c) == [f \in 1..t |-> [ch \in 1..(c + 1) |-> 0]]

\* cond[:n, ..., :-1] = src[:n]; cond[:n, ..., -1:] = 1.0
FillCond(src, n, t, c) ==
    [f \in 1..t |->
        [ch \in 1..(c + 1) |->
            IF f > n THEN 0
            ELSE IF ch <= c THEN src[f][ch] ELSE 1]]

\* Variant: sr reads the latent instead of latent_blur.
get_condition_from_latent(latent, latent_blur, task) ==
    LET t == Len(latent)
        c == Len(latent[1])
    IN  IF task = "t2v" \/ t = 1
        THEN [raised |-> FALSE,
              cond |-> IF task = "sr" THEN FillCond(latent, t, t, c)
                       ELSE ZeroCond(t, c)]
        ELSE IF task = "i2v"
        THEN [raised |-> FALSE, cond |-> FillCond(latent, 1, t, c)]
        ELSE IF task = "v2v"
        THEN [raised |-> FALSE, cond |-> FillCond(latent, 2, t, c)]
        ELSE IF task = "sr"
        THEN [raised |-> FALSE, cond |-> FillCond(latent, t, t, c)]
        ELSE [raised |-> TRUE, cond |-> <<>>]

\* infer.py:74-98
get_condition(latent, latent_blur, task) ==
    LET t == Len(latent)
        c == Len(latent[1])
    IN  IF task = "t2v" \/ t = 1
        THEN [raised |-> FALSE,
              cond |-> IF task = "sr" THEN FillCond(latent_blur, t, t, c)
                       ELSE ZeroCond(t, c)]
        ELSE IF task = "i2v"
        THEN [raised |-> FALSE, cond |-> FillCond(latent, 1, t, c)]
        ELSE IF task = "v2v"
        THEN [raised |-> FALSE, cond |-> FillCond(latent, 2, t, c)]
        ELSE IF task = "sr"
        THEN [raised |-> FALSE, cond |-> FillCond(latent_blur, t, t, c)]
        ELSE [raised |-> TRUE, cond |-> <<>>]

ConditionInit ==
    /\ LoopIdle
    /\ CutIdle
    /\ PrecisionIdle
    /\ ppc = "call"
    /\ fn = "get_condition"
    /\ \E latent \in Latents, task \in TaskTags :
          fnArgs = [latent |-> latent, latent_blur |-> Blurred(latent),
                    task |-> task]
    /\ fnResult = <<>>

GetCondition ==
    /\ fn = "get_condition"
    /\ ppc = "call"
    /\ fnResult' = get_condition(fnArgs.latent, fnArgs.latent_blur,
                                 fnArgs.task)
    /\ ppc' = "called"
    /\ UNCHANGED <<loopVars, cutVars, precVars, fn, fnArgs>>

ConditionNext == GetCondition

SpecCondition == ConditionInit /\ [][ConditionNext]_vars

\* ----- get_gpu_profile ----------------------------------------------------
\* total_memory is counted in units of 1/GbUnits GB; fractions and cleanup
\* thresholds are in percent, memory_reserved_threshold in tenths of a GB.
GpuProfile(name, reserved, low, high, block, io, swap) ==
    [profile |-> name,
     memory_reserved_threshold |-> reserved,
     memory_fraction_low |-> low,
     memory_fraction_high |-> high,
     block_cleanup_threshold |-> block,
     io_cleanup_threshold |-> io,
     recommended_blocks_to_swap |-> swap]

\* Variant: the tier limits are compared strictly.
get_gpu_profile_strict(cuda_available, total_memory) ==
    IF ~cuda_available
    THEN GpuProfile("cpu", 40, 80, 60, 70, 90, 0)
    ELSE IF total_memory > 24 * GbUnits
    THEN GpuProfile("high_end", 80, 90, 80, 85, 95, 0)
    ELSE IF total_memory > 12 * GbUnits
    THEN GpuProfile("mid_range", 40, 80, 60, 70, 85, 8)
    ELSE IF total_memory > 8 * GbUnits
    THEN GpuProfile("entry_level", 20, 70, 50, 60, 80, 16)
    ELSE GpuProfile("low_vram", 15, 60, 40, 50, 70, 24)

\* memory_manager.py:113-188
get_gpu_profile(cuda_available, total_memory) ==
    IF ~cuda_available
    THEN GpuProfile("cpu", 40, 80, 60, 70, 90, 0)
    ELSE IF total_memory >= 24 * GbUnits
    THEN GpuProfile("high_end", 80, 90, 80, 85, 95, 0)
    ELSE IF total_memory >= 12 * GbUnits
    THEN GpuProfile("mid_range", 40, 80, 60, 70, 85, 8)
    ELSE IF total_memory >= 8 * GbUnits
    THEN GpuProfile("entry_level", 20, 70, 50, 60, 80, 16)
    ELSE GpuProfile("low_vram", 15, 60, 40, 50, 70, 24)

\* the device: torch.cuda.is_available() and its total memory
ProfileInit ==
    /\ LoopIdle
    /\ CutIdle
    /\ PrecisionIdle
    /\ ppc = "call"
    /\ fn = "get_gpu_profile"
    /\ fnArgs \in [cuda_available : BOOLEAN,
                   total_memory : 0..(MaxVramGB * GbUnits)]
    /\ fnResult = <<>>

GetGpuProfile ==
    /\ fn = "get_gpu_profile"
    /\ ppc = "call"
    /\ fnResult' = get_gpu_profile(fnArgs.cuda_available,
                                   fnArgs.total_memory)
    /\ ppc' = "called"
    /\ UNCHANGED <<loopVars, cutVars, precVars, fn, fnArgs>>

ProfileNext == GetGpuProfile

SpecProfile == ProfileInit /\ [][ProfileNext]_vars

\* ----- clear_all_caches ---------------------------------------------------
\* An object's __dict__ is the set of the attribute names it holds. Spelling
\* gives the characters of every name and fragment the function handles.
Spelling ==
    "_modules" :> <<"_", "m", "o", "d", "u", "l", "e", "s">>
    @@ "_parameters" :> <<"_", "p", "a", "r", "a", "m", "e", "t", "e", "r", "s">>
    @@ "_buffers" :> <<"_", "b", "u", "f", "f", "e", "r", "s">>
    @@ "_forward_hooks" :> <<"_", "f", "o", "r", "w", "a", "r", "d", "_", "h", "o", "o", "k", "s">>
    @@ "_forward_pre_hooks" :> <<"_", "f", "o", "r", "w", "a", "r", "d", "_", "p", "r", "e", "_", "h", "o", "o", "k", "s">>
    @@ "_backward_hooks" :> <<"_", "b", "a", "c", "k", "w", "a", "r", "d", "_", "h", "o", "o", "k", "s">>
    @@ "_backward_pre_hooks" :> <<"_", "b", "a", "c", "k", "w", "a", "r", "d", "_", "p", "r", "e", "_", "h", "o", "o", "k", "s">>
    @@ "_state_dict_hooks" :> <<"_", "s", "t", "a", "t", "e", "_", "d", "i", "c", "t", "_", "h", "o", "o", "k", "s">>
    @@ "_state_dict_pre_hooks" :> <<"_", "s", "t", "a", "t", "e", "_", "d", "i", "c", "t", "_", "p", "r", "e", "_", "h", "o", "o", "k", "s">>
    @@ "_load_state_dict_pre_hooks" :> <<"_", "l", "o", "a", "d", "_", "s", "t", "a", "t", "e", "_", "d", "i", "c", "t", "_", "p", "r", "e", "_", "h", "o", "o", "k", "s">>
    @@ "_load_state_dict_post_hooks" :> <<"_", "l", "o", "a", "d", "_", "s", "t", "a", "t", "e", "_", "d", "i", "c", "t", "_", "p", "o", "s", "t", "_", "h", "o", "o", "k", "s">>
    @@ "_non_persistent_buffers_set" :> <<"_", "n", "o", "n", "_", "p", "e", "r", "s", "i", "s", "t", "e", "n", "t", "_", "b", "u", "f", "f", "e", "r", "s", "_", "s", "e", "t">>
    @@ "_version" :> <<"_", "v", "e", "r", "s", "i", "o", "n">>
    @@ "_is_full_backward_hook" :> <<"_", "i", "s", "_", "f", "u", "l", "l", "_", "b", "a", "c", "k", "w", "a", "r", "d", "_", "h", "o", "o", "k">>
    @@ "training" :> <<"t", "r", "a", "i", "n", "i", "n", "g">>
    @@ "_original_forward" :> <<"_", "o", "r", "i", "g", "i", "n", "a", "l", "_", "f", "o", "r", "w", "a", "r", "d">>
    @@ "_is_io_wrapped" :> <<"_", "i", "s", "_", "i", "o", "_", "w", "r", "a", "p", "p", "e", "d">>
    @@ "_block_idx" :> <<"_", "b", "l", "o", "c", "k", "_", "i", "d", "x">>
    @@ "_temp_cache" :> <<"_", "t", "e", "m", "p", "_", "c", "a", "c", "h", "e">>
    @@ "_block_cache" :> <<"_", "b", "l", "o", "c", "k", "_", "c", "a", "c", "h", "e">>
    @@ "_swap_cache" :> <<"_", "s", "w", "a", "p", "_", "c", "a", "c", "h", "e">>
    @@ "_generation_cache" :> <<"_", "g", "e", "n", "e", "r", "a", "t", "i", "o", "n", "_", "c", "a", "c", "h", "e">>
    @@ "_rope_cache" :> <<"_", "r", "o", "p", "e", "_", "c", "a", "c", "h", "e">>
    @@ "_intermediate_cache" :> <<"_", "i", "n", "t", "e", "r", "m", "e", "d", "i", "a", "t", "e", "_", "c", "a", "c", "h", "e">>
    @@ "_backward_cache" :> <<"_", "b", "a", "c", "k", "w", "a", "r", "d", "_", "c", "a", "c", "h", "e">>
    @@ "kv_cache" :> <<"k", "v", "_", "c", "a", "c", "h", "e">>
    @@ "temp_state" :> <<"t", "e", "m", "p", "_", "s", "t", "a", "t", "e">>
    @@ "_forward_hooks_with_kwargs" :> <<"_", "f", "o", "r", "w", "a", "r", "d", "_", "h", "o", "o", "k", "s", "_", "w", "i", "t", "h", "_", "k", "w", "a", "r", "g", "s">>
    @@ "layer_idx" :> <<"l", "a", "y", "e", "r", "_", "i", "d", "x">>
    @@ "cache" :> <<"c", "a", "c", "h", "e">>
    @@ "temp" :> <<"t", "e", "m", "p">>
    @@ "_" :> <<"_">>
    @@ "__" :> <<"_", "_">>

\* Python's `sub in name`
Contains(name, sub) ==
    LET n == Spelling[name]
        f == Spelling[sub]
    IN  \E i \in 1..(Len(n) - Len(f) + 1) : SubSeq(n, i, i + Len(f) - 1) = f

\* Python's name.startswith(prefix)
StartsWith(name, prefix) ==
    LET n == Spelling[name]
        f == Spelling[prefix]
    IN  Len(n) >= Len(f) /\ SubSeq(n, 1, Len(f)) = f

essential_attrs ==
    {
     "_modules", "_parameters", "_buffers",
     "_forward_hooks", "_forward_pre_hooks", "_backward_hooks",
     "_backward_pre_hooks", "_state_dict_hooks", "_state_dict_pre_hooks",
     "_load_state_dict_pre_hooks", "_load_state_dict_post_hooks", "_non_persistent_buffers_set",
     "_version", "_is_full_backward_hook", "training",
     "_original_forward", "_is_io_wrapped", "_block_idx"
    }

\* the three attributes BlockSwap sets on a wrapped block
BlockSwapAttrs == {"_original_forward", "_is_io_wrapped", "_block_idx"}

temp_attrs ==
    {
     "_temp_cache", "_block_cache", "_swap_cache",
     "_generation_cache", "_rope_cache", "_intermediate_cache",
     "_backward_cache"
    }

\* further attributes a block may carry
BlockAttrs == {"kv_cache", "temp_state", "_forward_hooks_with_kwargs", "layer_idx"}

\* Variant: the membership test against essential_attrs is dropped.
attrs_to_remove_any(block) ==
    {attr_name \in block :
        \/ Contains(attr_name, "cache")
        \/ Contains(attr_name, "temp")
        \/ /\ StartsWith(attr_name, "_")
           /\ ~StartsWith(attr_name, "__")}

\* memory_manager.py:569-580
attrs_to_remove(block) ==
    {attr_name \in block :
        /\ attr_name \notin essential_attrs
        /\ \/ Contains(attr_name, "cache")
           \/ Contains(attr_name, "temp")
           \/ /\ StartsWith(attr_name, "_")
              /\ ~StartsWith(attr_name, "__")
              /\ attr_name \notin essential_attrs}

\* memory_manager.py:484-619; the runner is a record of what the function
\* reads: the entries of runner.cache.cache, the RoPE LRU caches of the DiT
\* model, the __dict__ of each block, the temporary attributes of the runner
\* and of the DiT model.
clear_all_caches(runner) ==
    IF ~runner.has_cache /\ ~runner.has_dit
    THEN [runner |-> runner, cleaned_items |-> 0]
    ELSE LET cache_entries == IF runner.has_cache THEN runner.cache ELSE 0
             rope_caches_cleared == IF runner.has_dit THEN runner.rope_lru ELSE 0
             blocks == [idx \in 1..Len(runner.blocks) |->
                          runner.blocks[idx] \ attrs_to_remove(runner.blocks[idx])]
             temp_cleared == Cardinality(runner.runner_attrs \cap temp_attrs)
                             + Cardinality(runner.model_attrs \cap temp_attrs)
         IN  [runner |-> [runner EXCEPT !.cache = 0,
                                        !.rope_lru = 0,
                                        !.blocks = blocks,
                                        !.runner_attrs = @ \ temp_attrs,
                                        !.model_attrs = @ \ temp_attrs],
              cleaned_items |-> cache_entries + rope_caches_cleared + temp_cleared]

\* the __dict__ of a block: the attributes of a torch module, those of
\* BlockSwap when the block is wrapped, and any of BlockAttrs
BlockDicts(wrapped) ==
    {(essential_attrs \ BlockSwapAttrs)
        \cup (IF wrapped THEN BlockSwapAttrs ELSE {})
        \cup extra : extra \in SUBSET BlockAttrs}

Runner(c, has_dit, r, b, ra, ma) ==
    [has_cache |-> c > 0, cache |-> IF c = 2 THEN 2 ELSE 0, has_dit |-> has_dit,
     rope_lru |-> r, blocks |-> b, runner_attrs |-> ra, model_attrs |-> ma]

\* a runner without cache, with an empty cache or with two entries; without
\* DiT model or with one of up to MaxBlocks blocks
CachesInit ==
    /\ LoopIdle
    /\ CutIdle
    /\ PrecisionIdle
    /\ ppc = "call"
    /\ fn = "clear_all_caches"
    /\ \E c \in 0..2, ra \in {{}, {"_swap_cache"}} :
          \/ fnArgs = [runner |-> Runner(c, FALSE, 0, <<>>, ra, {})]
          \/ \E r \in 0..1, ma \in {{}, {"_rope_cache"}}, w \in BOOLEAN,
                n \in 1..MaxBlocks :
                \E b \in [1..n -> BlockDicts(w)] :
                    fnArgs = [runner |-> Runner(c, TRUE, r, b, ra, ma)]
    /\ fnResult = <<>>

ClearAllCaches ==
    /\ fn = "clear_all_caches"
    /\ ppc = "call"
    /\ fnResult' = clear_all_caches(fnArgs.runner)
    /\ ppc' = "called"
    /\ UNCHANGED <<loopVars, cutVars, precVars, fn, fnArgs>>

CachesNext == ClearAllCaches

SpecCaches == CachesInit /\ [][CachesNext]_vars

\* ----- release_reserved_memory --------------------------------------------
\* Memory is counted in GB. fnArgs is the allocator on entry; fnResult holds
\* the locals, what the allocator reserves now, the exception that leaves the
\* function (raised) and the exception an except clause absorbed (caught).
ReleaseInit ==
    /\ LoopIdle
    /\ CutIdle
    /\ PrecisionIdle
    /\ ppc = "call"
    /\ fn = "release_reserved_memory"
    /\ \E cuda \in BOOLEAN, res \in 0..MaxReservedGB :
          \E alloc \in 0..res :
              fnArgs = [cuda_available |-> cuda, allocated |-> alloc,
                        reserved |-> res]
    /\ fnResult = <<>>

ReleaseFrame == UNCHANGED <<loopVars, cutVars, precVars, fn, fnArgs>>

\* memory_manager.py:266-268 and 283-285
ClearSteps == <<"gc.collect", "empty_cache", "synchronize">>

\* memory_manager.py:271-272
ResetSteps == <<"reset_peak_memory_stats", "reset_accumulated_memory_stats">>

\* Variant: the dummy tensor is never allocated
ReleaseDummy_Skipped ==
    /\ fn = "release_reserved_memory"
    /\ ppc = "dummy"
    /\ ppc' = "final"
    /\ UNCHANGED fnResult
    /\ ReleaseFrame

\* memory_manager.py:258-263
ReleaseEnter ==
    /\ fn = "release_reserved_memory"
    /\ ppc = "call"
    /\ IF ~fnArgs.cuda_available
       THEN /\ fnResult' = [value |-> <<0, 0, 0, 0>>, raised |-> "none",
                            caught |-> "none", trace |-> <<>>]
            /\ ppc' = "called"
       ELSE /\ fnResult' = [allocated_before |-> fnArgs.allocated,
                            reserved_before |-> fnArgs.reserved,
                            reserved |-> fnArgs.reserved,
                            raised |-> "none", caught |-> "none",
                            trace |-> <<>>]
            /\ ppc' = "clear"
    /\ ReleaseFrame

\* memory_manager.py:265-272: the allocator gives back some of what it
\* reserves beyond the allocated tensors
ReleaseClear ==
    /\ fn = "release_reserved_memory"
    /\ ppc = "clear"
    /\ \E res \in fnArgs.allocated..fnResult.reserved :
          fnResult' = [fnResult EXCEPT !.reserved = res,
                                       !.trace = @ \o ClearSteps \o ResetSteps]
    /\ ppc' = "dummy"
    /\ ReleaseFrame

\* memory_manager.py:276-278
ReleaseDummy ==
    /\ fn = "release_reserved_memory"
    /\ ppc = "dummy"
    /\ ppc' = "final"
    /\ fnResult' = [fnResult EXCEPT !.trace = @ \o <<"zeros", "del">>]
    /\ ReleaseFrame

\* memory_manager.py:276-280: torch.zeros(1, device='cuda') raises and the
\* bare except passes
ReleaseDummyRaises ==
    /\ fn = "release_reserved_memory"
    /\ ppc = "dummy"
    /\ fnResult' = [fnResult EXCEPT !.caught = "oom",
                                   !.trace = @ \o <<"zeros">>]
    /\ ppc' = "final"
    /\ ReleaseFrame

\* memory_manager.py:282-291
ReleaseFinal ==
    /\ fn = "release_reserved_memory"
    /\ ppc = "final"
    /\ \E res \in fnArgs.allocated..fnResult.reserved :
          fnResult' = [fnResult EXCEPT !.reserved = res,
                                       !.trace = @ \o ClearSteps] @@
                      [value |-> <<fnResult.allocated_before,
                                   fnResult.reserved_before,
                                   fnArgs.allocated, res>>]
    /\ ppc' = "called"
    /\ ReleaseFrame

\* memory_manager.py:266-272, 283-285: a CUDA call outside the try block
\* raises
ReleaseOperationRaises ==
    /\ fn = "release_reserved_memory"
    /\ ppc \in {"clear", "final"}
    /\ fnResult' = [fnResult EXCEPT !.raised = "oom"]
    /\ ppc' = "raised"
    /\ ReleaseFrame

ReleaseNext ==
    \/ ReleaseEnter
    \/ ReleaseClear
    \/ ReleaseDummy
    \/ ReleaseDummyRaises
    \/ ReleaseFinal
    \/ ReleaseOperationRaises

SpecRelease == ReleaseInit /\ [][ReleaseNext]_vars

\* ----- vae_decode ---------------------------------------------------------
\* A latent is given by its shape (T_l, h, w, c), as vae_encode and
\* na.unflatten produce it. tile_size and tile_stride are (height, width)
\* pairs in latent space.
upsampling_factor == 8

DecodeInit ==
    /\ LoopIdle
    /\ CutIdle
    /\ PrecisionIdle
    /\ ppc = "call"
    /\ fn = "vae_decode"
    /\ \E t \in 1..MaxLatentFrames, h \in 1..MaxLatentSide,
          w \in 1..MaxLatentSide, c \in 1..MaxChannels, tiled \in BOOLEAN,
          tile \in 1..MaxLatentSide :
          \E stride \in 1..tile :
              fnArgs = [latent |-> <<t, h, w, c>>, tiled |-> tiled,
                        tile_size |-> <<tile, tile>>,
                        tile_stride |-> <<stride, stride>>]
    /\ fnResult = <<>>

\* infer.py:185-279: the latent gets a batch axis, the channels move to
\* second place, and the VAE decodes it in one call
standard_decode(latent) ==
    [samples |-> <<[frames |-> DecodedFrames(latent[1]),
                    height |-> latent[2] * upsampling_factor,
                    width |-> latent[3] * upsampling_factor,
                    layout |-> "as_decoded"]>>,
     branch |-> "standard",
     decode_calls |-> 1,
     raised |-> "none"]

\* infer.py:282-406: after rearrange the latent is (T_l, c, h, w), so ndim
\* is 4; both branches call self.vae.decode(..., preserve_vram), and
\* preserve_vram is neither a parameter nor a local of this method nor a
\* global of the module
_tiled_vae_decode(latent, tile_size, tile_stride) ==
    LET ndim == Len(latent)
        temporal_frames == IF ndim >= 5 THEN latent[3] ELSE 1
    IN  [samples |-> <<>>,
         branch |-> IF temporal_frames > 1 THEN "standard" ELSE "tiles",
         decode_calls |-> 0,
         raised |-> "NameError"]

\* infer.py:166-183
vae_decode(latent, tiled, tile_size, tile_stride) ==
    IF tiled
    THEN _tiled_vae_decode(latent, tile_size, tile_stride)
    ELSE standard_decode(latent)

VaeDecode ==
    /\ fn = "vae_decode"
    /\ ppc = "call"
    /\ fnResult' = vae_decode(fnArgs.latent, fnArgs.tiled, fnArgs.tile_size,
                              fnArgs.tile_stride)
    /\ ppc' = IF fnResult'.raised = "none" THEN "called" ELSE "raised"
    /\ UNCHANGED <<loopVars, cutVars, precVars, fn, fnArgs>>

DecodeNext == VaeDecode

SpecDecode == DecodeInit /\ [][DecodeNext]_vars

\* ----- the tile loop of _tiled_vae_decode ---------------------------------
\* The geometry of infer.py:327-386: which tiles the two loops visit, the
\* blend mask of each tile and the weight the masks add up to. Mask values
\* are exact fractions: a mask is a table of numerators over one denominator.
Max(a, b) == IF a >= b THEN a ELSE b

RECURSIVE GCD(_, _)
GCD(a, b) == IF b = 0 THEN a ELSE GCD(b, a % b)

LCM(a, b) == (a * b) \div GCD(a, b)

\* Variant: no origin is skipped.
RECURSIVE tile_origins_all(_, _, _, _)
tile_origins_all(y, h, tile_h, stride_h) ==
    IF y >= h
    THEN <<>>
    ELSE <<y>> \o tile_origins_all(y + stride_h, h, tile_h, stride_h)

\* infer.py:338-341 (and 343-346 for x): for y in range(0, h, stride_h),
\* from y on, without the origins the loop skips
RECURSIVE tile_origins(_, _, _, _)
tile_origins(y, h, tile_h, stride_h) ==
    IF y >= h
    THEN <<>>
    ELSE (IF y > 0 /\ y + tile_h > h /\ y - stride_h + tile_h >= h
          THEN <<>>
          ELSE <<y>>)
         \o tile_origins(y + stride_h, h, tile_h, stride_h)

\* the length of the ramps of a mask of `len` samples
ramp(len, border) == Min(border, len)

\* the denominator of torch.linspace over `n` samples
steps(n) == Max(n - 1, 1)

\* Variant: both edges ramp, on the outer boundary too.
mask_1d_always_ramps(len, border, leading_boundary, trailing_boundary) ==
    LET n == ramp(len, border)
        d == steps(n)
    IN  [k \in 1..len |->
            IF border > 0 /\ k > len - n
            THEN d - (k - (len - n) - 1)
            ELSE IF border > 0 /\ k <= n
            THEN k - 1
            ELSE d]

\* infer.py:414-435: h_mask (or w_mask), as numerators over
\* steps(ramp(len, border)); the trailing ramp is written last
mask_1d(len, border, leading_boundary, trailing_boundary) ==
    LET n == ramp(len, border)
        d == steps(n)
    IN  [k \in 1..len |->
            IF ~trailing_boundary /\ border > 0 /\ k > len - n
            THEN d - (k - (len - n) - 1)
            ELSE IF ~leading_boundary /\ border > 0 /\ k <= n
            THEN k - 1
            ELSE d]

\* Variant: the mask is flat, without ramps.
_create_tile_mask_flat(shape, is_boundary, border_width) ==
    [num |-> [y \in 1..shape[1] |-> [x \in 1..shape[2] |-> 1]],
     den |-> 1]

\* infer.py:408-442; shape is (h, w) of the decoded tile
_create_tile_mask(shape, is_boundary, border_width) ==
    LET h_mask == mask_1d(shape[1], border_width[1], is_boundary[1],
                          is_boundary[2])
        w_mask == mask_1d(shape[2], border_width[2], is_boundary[3],
                          is_boundary[4])
    IN  [num |-> [y \in 1..shape[1] |->
                     [x \in 1..shape[2] |-> h_mask[y] * w_mask[x]]],
         den |-> steps(ramp(shape[1], border_width[1]))
                 * steps(ramp(shape[2], border_width[2]))]

RECURSIVE SumTo(_, _)
SumTo(f, n) == IF n = 0 THEN 0 ELSE f[n] + SumTo(f, n - 1)

RECURSIVE LcmTo(_, _)
LcmTo(f, n) == IF n = 0 THEN 1 ELSE LCM(f[n], LcmTo(f, n - 1))

\* infer.py:327-386: the tiles in the order of the loops, and the weight
\* map as numerators over weight_den
tile_loop(h, w, tile_size, tile_stride) ==
    LET ys == tile_origins(0, h, tile_size[1], tile_stride[1])
        xs == tile_origins(0, w, tile_size[2], tile_stride[2])
        tiles == [n \in 1..(Len(ys) * Len(xs)) |->
                    LET y == ys[((n - 1) \div Len(xs)) + 1]
                        x == xs[((n - 1) % Len(xs)) + 1]
                        y_end == Min(y + tile_size[1], h)
                        x_end == Min(x + tile_size[2], w)
                    IN  [y |-> y, x |-> x, y_end |-> y_end, x_end |-> x_end,
                         mask |-> _create_tile_mask(
                            <<(y_end - y) * upsampling_factor,
                              (x_end - x) * upsampling_factor>>,
                            <<y = 0, y_end >= h, x = 0, x_end >= w>>,
                            <<(tile_size[1] - tile_stride[1]) * upsampling_factor,
                              (tile_size[2] - tile_stride[2]) * upsampling_factor>>)]]
        den == LcmTo([n \in 1..Len(tiles) |-> tiles[n].mask.den], Len(tiles))
        Share(n, Y, X) ==
            LET out_y == tiles[n].y * upsampling_factor
                out_x == tiles[n].x * upsampling_factor
                out_y_end == tiles[n].y_end * upsampling_factor
                out_x_end == tiles[n].x_end * upsampling_factor
            IN  IF out_y <= Y /\ Y < out_y_end /\ out_x <= X /\ X < out_x_end
                THEN tiles[n].mask.num[Y - out_y + 1][X - out_x + 1]
                     * (den \div tiles[n].mask.den)
                ELSE 0
    IN  [origins_y |-> ys,
         origins_x |-> xs,
         tiles_processed |-> Len(tiles),
         weight |-> [Y \in 0..(h * upsampling_factor - 1) |->
                       [X \in 0..(w * upsampling_factor - 1) |->
                           SumTo([n \in 1..Len(tiles) |-> Share(n, Y, X)],
                                 Len(tiles))]],
         weight_den |-> den]

\* the 64x64 latent with tiles of 32 and stride 16
TileExample ==
    [h |-> 64, w |-> 64, tile_size |-> <<32, 32>>, tile_stride |-> <<16, 16>>]

TilesInit ==
    /\ LoopIdle
    /\ CutIdle
    /\ PrecisionIdle
    /\ ppc = "call"
    /\ fn = "tile_loop"
    /\ \/ fnArgs = TileExample
       \/ \E h \in 1..MaxTileSide, w \in 1..MaxTileSide,
             tile \in 1..MaxTileSide, stride \in 1..MaxTileSide :
             fnArgs = [h |-> h, w |-> w, tile_size |-> <<tile, tile>>,
                       tile_stride |-> <<stride, stride>>]
    /\ fnResult = <<>>

TileLoop ==
    /\ fn = "tile_loop"
    /\ ppc = "call"
    /\ fnResult' = tile_loop(fnArgs.h, fnArgs.w, fnArgs.tile_size,
                             fnArgs.tile_stride)
    /\ ppc' = "called"
    /\ UNCHANGED <<loopVars, cutVars, precVars, fn, fnArgs>>

TilesNext == TileLoop

SpecTiles == TilesInit /\ [][TilesNext]_vars

\* ----- the final copy of generation_loop ---------------------------------
\* generation.py:575-620 on its own: the batches kept by the loop are copied
\* into the returned tensor. A frame is the pair (batch, row) it came from.
\* Batch i has 1 + ((i + offset) mod period) frames.
BatchCounts ==
    {0, 1, 2, block_size - 1, block_size, block_size + 1, 2 * block_size,
     2 * block_size + 1}

ConcatInit ==
    /\ LoopIdle
    /\ CutIdle
    /\ PrecisionIdle
    /\ ppc = "call"
    /\ fn = "final_video_images"
    /\ \E n \in BatchCounts, period \in 1..MaxBatchFrames,
          offset \in 0..(MaxBatchFrames - 1) :
          fnArgs = [batch_samples |->
                      [i \in 1..n |->
                          [k \in 1..(1 + ((i + offset) % period)) |-> <<i, k>>]]]
    /\ fnResult = <<>>

\* generation.py:575-620
final_video_images(samples) ==
    IF Len(samples) > 0 THEN CopyBlocks(samples, 0) ELSE <<>>

FinalCopy ==
    /\ fn = "final_video_images"
    /\ ppc = "call"
    /\ fnResult' = final_video_images(fnArgs.batch_samples)
    /\ ppc' = "called"
    /\ UNCHANGED <<loopVars, cutVars, precVars, fn, fnArgs>>

ConcatNext == FinalCopy

SpecConcat == ConcatInit /\ [][ConcatNext]_vars

\* ======================= preinitialize_rope_cache
\* memory_manager.py:301-384. A RoPE module of runner.dit is described by
\* where its tensors are and whether any of them is a parameter (the others
\* are buffers); fnResult follows the devices of the modules, the loop
\* position, the messages printed and an exception that leaves the call.

\* memory_manager.py:313-319
common_shapes == <<<<1, 3, 3>>, <<4, 3, 3>>, <<5, 3, 3>>, <<1, 4, 4>>>>

RopeModules ==
    [has_parameters : BOOLEAN, device : {"cuda", "cpu"}]

RopeInit ==
    /\ LoopIdle
    /\ CutIdle
    /\ PrecisionIdle
    /\ ppc = "call"
    /\ fn = "preinitialize_rope_cache"
    /\ \E n \in 0..MaxRopeModules :
          \E ms \in [1..n -> RopeModules] : fnArgs = [rope_modules |-> ms]
    /\ fnResult = <<>>

RopeFrame == UNCHANGED <<loopVars, cutVars, precVars, fn, fnArgs>>

\* memory_manager.py:309-334
RopeEnter ==
    /\ fn = "preinitialize_rope_cache"
    /\ ppc = "call"
    /\ fnResult' = [devices |-> [i \in DOMAIN fnArgs.rope_modules |->
                                    fnArgs.rope_modules[i].device],
                    idx |-> 0, shape |-> 0, original_device |-> "none",
                    temp_cache |-> {}, runner_cache |-> {},
                    logged |-> <<>>, raised |-> "none"]
    /\ ppc' = "module"
    /\ RopeFrame

\* memory_manager.py:337-340
RopeMoveToCpu ==
    /\ fn = "preinitialize_rope_cache"
    /\ ppc = "module"
    /\ fnResult.idx < Len(fnArgs.rope_modules)
    /\ LET i == fnResult.idx + 1
           rope_module == fnArgs.rope_modules[i]
       IN  fnResult' = [fnResult EXCEPT
               !.idx = i,
               !.shape = 0,
               !.original_device = IF rope_module.has_parameters
                                   THEN rope_module.device
                                   ELSE "cpu",
               !.devices[i] = "cpu"]
    /\ ppc' = "freqs"
    /\ RopeFrame

\* memory_manager.py:343-367: get_freqs returns and the cache keeps it
RopeComputeFreqs ==
    /\ fn = "preinitialize_rope_cache"
    /\ ppc = "freqs"
    /\ fnResult.shape < Len(common_shapes)
    /\ LET k == fnResult.shape + 1
       IN  fnResult' = [fnResult EXCEPT
               !.shape = k,
               !.temp_cache = @ \cup {common_shapes[k]}]
    /\ ppc' = IF fnResult.shape + 1 = Len(common_shapes) THEN "restore"
              ELSE "freqs"
    /\ RopeFrame

\* memory_manager.py:359-365: get_freqs raises; compute_freqs prints the
\* failure and returns zeros, which the cache keeps under the key
RopeComputeFails ==
    /\ fn = "preinitialize_rope_cache"
    /\ ppc = "freqs"
    /\ fnResult.shape < Len(common_shapes)
    /\ LET k == fnResult.shape + 1
       IN  fnResult' = [fnResult EXCEPT
               !.shape = k,
               !.temp_cache = @ \cup {common_shapes[k]},
               !.logged = Append(@, "Failed for")]
    /\ ppc' = IF fnResult.shape + 1 = Len(common_shapes) THEN "restore"
              ELSE "freqs"
    /\ RopeFrame

\* memory_manager.py:362-365, 370-371: the fallback of compute_freqs raises
\* in its turn (clear_vram_cache, torch.zeros); the handler of the module
\* prints it and the remaining shapes are left out
RopeFallbackRaises ==
    /\ fn = "preinitialize_rope_cache"
    /\ ppc = "freqs"
    /\ fnResult.shape < Len(common_shapes)
    /\ fnResult' = [fnResult EXCEPT
            !.logged = @ \o <<"Failed for", "Error in module">>]
    /\ ppc' = "restore"
    /\ RopeFrame

\* memory_manager.py:372-374
RopeRestore ==
    /\ fn = "preinitialize_rope_cache"
    /\ ppc = "restore"
    /\ fnResult' = [fnResult EXCEPT
            !.devices[fnResult.idx] = fnResult.original_device]
    /\ ppc' = "module"
    /\ RopeFrame

\* memory_manager.py:372-374, 382-384: moving the module back to the GPU
\* raises inside the finally clause; the outer handler prints it
RopeRestoreRaises ==
    /\ fn = "preinitialize_rope_cache"
    /\ ppc = "restore"
    /\ fnResult.original_device = "cuda"
    /\ fnResult' = [fnResult EXCEPT
            !.logged = Append(@, "Error during RoPE pre-init")]
    /\ ppc' = "called"
    /\ RopeFrame

\* memory_manager.py:376-380
RopeUpdateCache ==
    /\ fn = "preinitialize_rope_cache"
    /\ ppc = "module"
    /\ fnResult.idx = Len(fnArgs.rope_modules)
    /\ fnResult' = [fnResult EXCEPT !.runner_cache = fnResult.temp_cache]
    /\ ppc' = "called"
    /\ RopeFrame

\* memory_manager.py:334, 382-384: find_rope_modules raises (runner.dit
\* missing); the outer handler prints it
RopeSearchRaises ==
    /\ fn = "preinitialize_rope_cache"
    /\ ppc = "module"
    /\ fnResult.idx = 0
    /\ fnResult' = [fnResult EXCEPT
            !.logged = Append(@, "Error during RoPE pre-init")]
    /\ ppc' = "called"
    /\ RopeFrame

RopeNext ==
    \/ RopeEnter
    \/ RopeMoveToCpu
    \/ RopeComputeFreqs
    \/ RopeComputeFails
    \/ RopeFallbackRaises
    \/ RopeRestore
    \/ RopeRestoreRaises
    \/ RopeUpdateCache
    \/ RopeSearchRaises

SpecRope == RopeInit /\ [][RopeNext]_vars

\* ======================= get_intelligent_memory_config
\* memory_manager.py:191-250. Memory is counted in ticks, TicksPerGB to the
\* gigabyte, so that the tenths of the multiplier, the fractions of the
\* resolution and the fractions of the VRAM are all whole numbers; the
\* resolution is counted in ResUnits-ths of 1024.

TicksPerGB == 10 * GbUnits * ResUnits

\* memory_manager.py:206-218, in ticks
total_required(model_type, n_batch, resolution) ==
    LET base_memory_required == IF model_type = "7b" THEN 14 ELSE 8
        memory_multiplier ==
            (10 * ResUnits)
            + (IF n_batch > 5 THEN (n_batch - 5) * ResUnits ELSE 0)
            + (IF resolution > ResUnits THEN 2 * (resolution - ResUnits)
                                        ELSE 0)
    IN  base_memory_required * memory_multiplier * GbUnits

\* memory_manager.py:220-235, required and available_vram in ticks
blocks_for(required, available_vram, recommended) ==
    LET blocks_to_swap ==
            IF 10 * required > 9 * available_vram
            THEN Min(28, ((10 * required) - (7 * available_vram))
                             \div (5 * TicksPerGB))
            ELSE IF 10 * required > 7 * available_vram
            THEN Min(16, ((10 * required) - (6 * available_vram))
                             \div (5 * TicksPerGB))
            ELSE 0
    IN  Max(blocks_to_swap, recommended)

\* memory_manager.py:191-250
get_intelligent_memory_config(cuda_available, total_memory, model_type, n_batch, resolution) ==
    LET gpu_profile == get_gpu_profile(cuda_available, total_memory)
        required == total_required(model_type, n_batch, resolution)
        available_vram == IF cuda_available
                          THEN total_memory * 10 * ResUnits
                          ELSE 0
        blocks_to_swap ==
            blocks_for(required, available_vram,
                       gpu_profile.recommended_blocks_to_swap)
    IN  [gpu_profile |-> gpu_profile.profile,
         total_vram_gb |-> IF cuda_available THEN total_memory ELSE 0,
         blocks_to_swap |-> blocks_to_swap,
         estimated_memory_usage |-> required,
         optimization_level |->
             IF blocks_to_swap > 16 THEN "aggressive"
             ELSE IF blocks_to_swap > 0 THEN "moderate"
             ELSE "none"]

ConfigInit ==
    /\ LoopIdle
    /\ CutIdle
    /\ PrecisionIdle
    /\ ppc = "call"
    /\ fn = "get_intelligent_memory_config"
    /\ \E cuda \in BOOLEAN, mem \in 0..(MaxVramGB * GbUnits),
          mt \in {"3b", "7b"}, bs \in 1..MaxConfigBatch,
          res \in 1..MaxResolution :
          fnArgs = [cuda_available |-> cuda, total_memory |-> mem,
                    model_type |-> mt, batch_size |-> bs,
                    resolution |-> res]
    /\ fnResult = <<>>

GetIntelligentMemoryConfig ==
    /\ fn = "get_intelligent_memory_config"
    /\ ppc = "call"
    /\ fnResult' = get_intelligent_memory_config(
                       fnArgs.cuda_available, fnArgs.total_memory,
                       fnArgs.model_type, fnArgs.batch_size,
                       fnArgs.resolution)
    /\ ppc' = "called"
    /\ UNCHANGED <<loopVars, cutVars, precVars, fn, fnArgs>>

ConfigNext == GetIntelligentMemoryConfig

SpecConfig == ConfigInit /\ [][ConfigNext]_vars

\* ======================= properties =====================================
Range(s) == {s[i] : i \in 1..Len(s)}

\* C1 (stated as claimed; refuted by the code): for every input of N >= 5
\* frames, the tensor returned by generation_loop has exactly N frames.
C1_OutputHasNFrames ==
    (pc = "returned" /\ N >= MinPadFrames) => Len(result) = N

\* C2: when N >= 5, every video handed to vae_encode has a temporal length
\* T with T mod 4 = 1, for every batch including a shorter final batch.
C2_EncodedLengthIs4nPlus1 ==
    N >= MinPadFrames => \A i \in 1..Len(encoded) : encoded[i] % 4 = 1

\* C2 witness: a later, shorter batch of a clip of >= 5 frames was padded
\* and encoded.
C2_Witness ==
    /\ N >= MinPadFrames
    /\ pc = "step"
    /\ batch_count > 0
    /\ ori_length < batch_size
    /\ Len(transformed_video) > ori_length
    /\ encoded[Len(encoded)] = Len(transformed_video)

\* C3: cut_videos returns the video unchanged when T mod 4 = 1; otherwise
\* it returns the video followed by k copies of its last frame, k the
\* smallest positive integer with (T + k) mod 4 = 1; the first T frames are
\* unchanged and no zero frame is introduced.
C3_CutVideosPadsWithLastFrame ==
    ppc = "cut_done" =>
        LET T == Len(cutIn)
        IN  /\ T % 4 = 1 => cutOut = cutIn
            /\ T % 4 # 1 =>
                 \E k \in 1..4 :
                    /\ (T + k) % 4 = 1
                    /\ \A j \in 1..(k - 1) : (T + j) % 4 # 1
                    /\ Len(cutOut) = T + k
                    /\ SubSeq(cutOut, 1, T) = cutIn
                    /\ \A i \in (T + 1)..(T + k) : cutOut[i] = cutIn[T]
            /\ \A i \in 1..Len(cutOut) : cutOut[i] # 0

\* C3 witness: a video of T = 2 (mod 4) frames was padded by three frames.
C3_Witness ==
    /\ ppc = "cut_done"
    /\ Len(cutIn) % 4 = 2
    /\ Len(cutOut) = Len(cutIn) + 3
    /\ cutIn[1] # cutIn[Len(cutIn)]

\* C4 (stated as claimed; refuted by the code): for N = 4 and batch_size = 4
\* the batch is padded to 5 frames before encoding and trimmed back to 4.
C4_PaddedToFive ==
    (N = 4 /\ batch_size = 4) =>
        /\ \A i \in 1..Len(encoded) : encoded[i] = 5
        /\ \A i \in 1..Len(batch_samples) : Len(batch_samples[i]) = 4

\* C4 amended: for N = 4 and batch_size = 4 the single batch is not padded
\* (the pad applies only when N >= 5): the video handed to vae_encode has 4
\* frames, and the trimmed result has at most 4 frames.
C4_UnpaddedBelowFive ==
    (N = 4 /\ batch_size = 4) =>
        /\ Len(encoded) <= 1
        /\ \A i \in 1..Len(encoded) : encoded[i] = 4
        /\ pc \in {"vae_to_device", "encode"} => Len(transformed_video) = 4
        /\ \A i \in 1..Len(batch_samples) : Len(batch_samples[i]) <= 4

\* C4 witness: the 4-frame batch was encoded, decoded to 5 frames and
\* trimmed to 4.
C4_Witness ==
    /\ N = 4 /\ batch_size = 4
    /\ pc = "save_cb"
    /\ encoded = <<4>>
    /\ DecodedFrames(cond_latents) = 5
    /\ Len(sample) = 4

\* C5 (stated as claimed; refuted by the code): under preserve_vram,
\* runner.vae is None at the end of every processed batch iteration and
\* whenever generation_loop has exited, by returning or by raising.
C5_VaeAbsentOnEveryExit ==
    preserve_vram =>
        /\ (pc = "loop" /\ batch_count > 0) => vae = "none"
        /\ pc \in {"concat", "returned", "raised"} => vae = "none"

\* C5 amended: under preserve_vram, runner.vae is None at the end of every
\* processed batch iteration and when generation_loop exits after it has
\* entered its try block (it returns, stops early, or raises from the loop);
\* an error raised by the setup before the try block leaves runner.vae as
\* the caller passed it.
C5_VaeAbsentAfterLoop ==
    preserve_vram =>
        /\ (pc = "loop" /\ batch_count > 0) => vae = "none"
        /\ pc \in {"concat", "returned"} => vae = "none"
        /\ (pc = "raised" /\ raised.at # "setup") => vae = "none"

\* C5 witness: a second batch failed while decoding, after the VAE had been
\* torn down, re-created and moved to the GPU, and the loop has exited.
C5_Witness ==
    /\ preserve_vram
    /\ pc = "raised"
    /\ raised.at = "decode"
    /\ batch_count = 1
    /\ "create_vae" \in Range(trace)
    /\ vae = "none"

\* C6 (stated as claimed; refuted by the code): with preserve_vram on and
\* block-swap configured (the flag is set or the blocks are wrapped), no
\* step of generation_step or inference moves the whole DiT to the GPU.
C6_WholeDitNeverOnGpu ==
    (preserve_vram /\ (blockswap_active \/ blocks_have_swap)) =>
        /\ "dit_to_gpu" \notin Range(trace)
        /\ dit # "cuda"

\* The row of the precision table for a loaded weight dtype.
PrecisionTable(d) ==
    IF d \in FP8
    THEN [compute |-> "bfloat16", autocast |-> "bfloat16",
          vae |-> "bfloat16", decode |-> "float16"]
    ELSE IF d = "float16"
    THEN [compute |-> "float16", autocast |-> "float16",
          vae |-> "float16", decode |-> "float16"]
    ELSE [compute |-> "bfloat16", autocast |-> "bfloat16",
          vae |-> "bfloat16", decode |-> "bfloat16"]

\* C7 (stated as claimed; refuted by the code): for every loaded weight
\* dtype, the compute dtype (the dtype of the text embeddings and latents
\* when the sampler is entered), the autocast dtype around the sampler, the
\* VAE dtype and the decode target dtype equal the row of the precision
\* table.
C7_PrecisionMatchesTable ==
    /\ ppc = "p_sampling" =>
          /\ compute_dtype = PrecisionTable(model_dtype).compute
          /\ text_dtype = PrecisionTable(model_dtype).compute
          /\ latents_dtype = PrecisionTable(model_dtype).compute
          /\ autocast[Len(autocast)] = PrecisionTable(model_dtype).autocast
          /\ vae_dtype = PrecisionTable(model_dtype).vae
    /\ ppc \in {"p_decoded", "p_done"} =>
          decode_dtype = PrecisionTable(model_dtype).decode

\* C8 (stated as claimed; refuted by the code): if an error is raised while
\* batch k is being processed, the frame-save callback has been invoked
\* exactly once for each batch before k and for no batch from k on, and the
\* error propagates instead of a result being returned.
C8_NoCallbackFromFailedBatch ==
    (raised # NoError /\ raised.at # "setup") =>
        /\ Len(save_calls) = (IF frame_save_callback THEN batch_count ELSE 0)
        /\ \A i \in 1..Len(save_calls) : save_calls[i].batch = i - 1
        /\ pc \in {"finally", "raised"}
        /\ result = <<>>

\* C8 amended: if an error is raised while batch k is being processed before
\* its frame-save callback is reached (VAE re-creation, cancellation,
\* transform, encode, sampling, decode, post-processing), the callback has
\* been invoked exactly once for each batch before k and for no batch from
\* k on; if the frame-save callback or the progress callback of batch k
\* raises, the callback has been invoked for batch k as well.  In both cases
\* the error propagates out of generation_loop and no result is returned.
C8_CallbackOncePerEarlierBatch ==
    (raised # NoError /\ raised.at # "setup") =>
        /\ Len(save_calls) =
              (IF ~frame_save_callback THEN 0
               ELSE IF raised.at \in {"save_cb", "progress_cb"}
                    THEN batch_count + 1
                    ELSE batch_count)
        /\ \A i \in 1..Len(save_calls) : save_calls[i].batch = i - 1
        /\ pc \in {"finally", "raised"}
        /\ result = <<>>

\* C8 witness: sampling of the third batch failed, the callback was invoked
\* for the two batches before it, and the error has left generation_loop.
C8_Witness ==
    /\ frame_save_callback
    /\ pc = "raised"
    /\ raised = [kind |-> "error", at |-> "sample"]
    /\ batch_count = 2
    /\ Len(save_calls) = 2

HeavyWork == {"create_vae", "load_vae_weights", "transform", "encode",
              "sample", "decode"}

\* C10 (stated as claimed; refuted by the code): where the host's probe is
\* available, no VAE re-creation or weight load, transform, encode, sampling
\* or decode of a batch iteration happens before the probe of that iteration.
C10_ProbeBeforeHeavyWork ==
    COMFYUI_AVAILABLE =>
        \A i \in 1..Len(trace) :
            trace[i] \in HeavyWork =>
                \E j \in 1..(i - 1) : trace[j] = "probe"

\* The program points of a batch whose frame range has been accepted.
InBatch == {"transform", "vae_to_device", "encode", "step", "prepare",
            "fraction", "sample", "post_sample", "decode", "reset_fraction",
            "post", "save_cb", "progress_cb", "teardown"}

\* C11: the batches are processed at the origins 0, step, 2*step, ... below
\* N in increasing order, each covering [i, min(i + batch_size, N)); the loop
\* stops at the first non-first origin whose range holds at most
\* temporal_overlap frames and processes nothing after it; the 91-frame clip
\* with batch_size 89 and overlap 8 is processed in two batches, at origins
\* 0 and 81.
C11_BatchOrigins ==
    /\ pc \in InBatch =>
          /\ start_idx = batch_count * step
          /\ start_idx < N
          /\ end_idx = Min(start_idx + batch_size, N)
          /\ batch_count > 0 => end_idx - start_idx > temporal_overlap
    /\ \A i \in 1..Len(save_calls) :
          /\ save_calls[i].batch = i - 1
          /\ save_calls[i].start = (i - 1) * step
    /\ Len(batch_samples) \in {batch_count, batch_count + 1}
    /\ pc \in {"concat", "returned"} =>
          /\ Len(batch_samples) = batch_count
          /\ \/ batch_count * step >= N
             \/ /\ batch_count > 0
                /\ Min(batch_count * step + batch_size, N) - batch_count * step
                      <= temporal_overlap
    /\ (<<N, batch_size, temporal_overlap>> = LongClip
            /\ pc \in {"concat", "returned"}) =>
          /\ batch_count = 2
          /\ step = 81
          /\ frame_save_callback =>
                /\ Len(save_calls) = 2
                /\ save_calls[1].start = 0
                /\ save_calls[2].start = 81

\* C11 witness: the 91-frame clip has been returned after two batches, the
\* second one starting at frame 81.
C11_Witness ==
    /\ <<N, batch_size, temporal_overlap>> = LongClip
    /\ pc = "returned"
    /\ Len(save_calls) = 2
    /\ save_calls[2].start = 81
    /\ save_calls[2].end = 91

\* C12: step is batch_size - temporal_overlap when that is positive;
\* otherwise step is batch_size and temporal_overlap is 0 from then on; and
\* calculate_optimal_batch_params returns the same step and temporal_overlap
\* as generation_loop uses.
C12_StepClamp ==
    (pc # "setup" /\ raised.at # "setup") =>
        /\ step >= 1
        /\ fn = "calculate_optimal_batch_params" =>
              /\ fnArgs[2] = batch_size
              /\ fnArgs[2] - fnArgs[3] > 0 =>
                    /\ step = fnArgs[2] - fnArgs[3]
                    /\ temporal_overlap = fnArgs[3]
              /\ fnArgs[2] - fnArgs[3] <= 0 =>
                    /\ step = fnArgs[2]
                    /\ temporal_overlap = 0
              /\ fnResult.step = step
              /\ fnResult.temporal_overlap = temporal_overlap

\* C12 witness: batch_size 2 with overlap 2 on 3 frames: step is 2, the
\* overlap is 0, and the second batch, of one frame, is being processed.
C12_Witness ==
    /\ fn = "calculate_optimal_batch_params"
    /\ fnArgs = <<3, 2, 2>>
    /\ fnResult.step = 2
    /\ step = 2
    /\ temporal_overlap = 0
    /\ batch_count = 1
    /\ pc = "transform"

\* The operations of a batch iteration that use the GPU.
GpuOps == {"transform", "vae_to_gpu", "encode", "dit_to_gpu", "sample",
           "decode"}

\* C13: within a batch the VAE encode, the DiT sampling, the VAE decode and
\* the frame-save callback happen once each and in this order; under
\* preserve_vram the VAE has been torn down when the iteration of batch k+1
\* starts, before any of its GPU operations (the iteration begins by
\* re-creating the VAE).
C13_EventOrder ==
    /\ \A i \in 1..Len(trace) :
          /\ trace[i] = "sample" =>
                \E j \in 1..(i - 1) : trace[j] = "encode"
          /\ trace[i] = "decode" =>
                \E j \in 1..(i - 1) : trace[j] = "sample"
          /\ trace[i] = "save_cb" =>
                \E j \in 1..(i - 1) : trace[j] = "decode"
          /\ trace[i] \in {"encode", "sample", "decode", "save_cb"} =>
                \A j \in 1..Len(trace) : j # i => trace[j] # trace[i]
    /\ (preserve_vram /\ batch_count > 0) =>
          /\ pc = "rebuild" => (vae = "none" /\ trace = <<>>)
          /\ pc \in InBatch \cup {"probe", "range"} =>
                /\ Len(trace) >= 1
                /\ trace[1] = "create_vae"

\* C13 witness: under preserve_vram the second batch went through VAE
\* re-creation, encode, sampling, decode and the frame-save callback.
C13_Witness ==
    /\ preserve_vram
    /\ batch_count = 1
    /\ pc = "progress_cb"
    /\ trace[1] = "create_vae"
    /\ trace[Len(trace)] = "save_cb"
    /\ {"encode", "sample", "decode"} \subseteq Range(trace)

\* C14: when a frame-save callback is given it is invoked exactly once for
\* the k-th processed batch (k from 0), with batch_index = k, start_idx =
\* the index of the batch's first input frame and end_idx = start_idx + the
\* number of frames of the batch's output; the call precedes the progress
\* callback of the batch; end_idx never exceeds N.
C14_FrameSaveCallbackArguments ==
    frame_save_callback =>
        /\ \A i \in 1..Len(save_calls) :
              /\ save_calls[i].batch = i - 1
              /\ save_calls[i].start = (i - 1) * step
              /\ save_calls[i].end =
                    save_calls[i].start + Len(batch_samples[i])
              /\ save_calls[i].end <= N
        /\ pc \in {"loop", "rebuild", "probe", "range"} \cup InBatch =>
              Len(save_calls) =
                  (IF pc \in {"progress_cb", "teardown"}
                   THEN batch_count + 1
                   ELSE batch_count)
        /\ Len(progress_calls) <= Len(save_calls)
        /\ (progress_callback /\ pc = "progress_cb") =>
              Len(progress_calls) = batch_count

\* C14 witness: the second batch has been handed to the frame-save callback
\* and then to the progress callback.
C14_Witness ==
    /\ frame_save_callback
    /\ progress_callback
    /\ pc = "teardown"
    /\ batch_count = 1
    /\ Len(save_calls) = 2
    /\ save_calls[2].batch = 1
    /\ save_calls[2].start = step
    /\ save_calls[2].end > save_calls[2].start
    /\ Len(progress_calls) = 2

\* C15 (stated as claimed; refuted by the code): under preserve_vram, for
\* every block-swap setting, when the conditioning latent has more than one
\* latent frame the VAE is on the CPU from the memory preparation until the
\* sampling is over, and on the GPU again when the decode starts.
C15_VaeOffloadedWhileSampling ==
    (preserve_vram /\ cond_latents > 1) =>
        /\ pc \in {"fraction", "sample", "post_sample"} => vae = "cpu"
        /\ pc = "decode" => vae = "cuda"

\* C16 (stated as claimed; refuted by the code): after the memory
\* preparation of inference, if the runner flag is set or the first block
\* is wrapped the DiT has not been moved to the GPU, and in every other
\* case the whole DiT is on the GPU before sampling (the preparation runs
\* when the DiT offload flag of the call is set).
C16_DitPlacementAtPreparation ==
    (dit_vram_flag /\ pc \in {"fraction", "sample"}) =>
        IF blockswap_active \/ blocks_have_swap
        THEN "dit_to_gpu" \notin Range(trace)
        ELSE dit = "cuda"

\* C17: when inference runs with use_blockswap = True and the blocks are not
\* wrapped for block-swap, the memory fraction is never set below 1.0.
C17_NoCapWithoutWrappedBlocks ==
    (use_blockswap /\ ~blocks_have_swap) => memory_fraction = 100

\* C17 witness: block-swap was requested on unwrapped blocks; the fraction
\* has been set, to 1.0, and the sampler is about to start.
C17_Witness ==
    /\ use_blockswap
    /\ ~blocks_have_swap
    /\ pc = "sample"
    /\ "set_fraction" \in Range(trace)
    /\ memory_fraction = 100

\* C18 (stated as claimed; refuted by the code): at sampler step i (from 0)
\* of `steps` timesteps the dispatcher receives cfg_scale when
\* i/steps <= partial and 1.0 otherwise.
C18_ScaleByStepIndex ==
    fn = "sample" =>
        \A i \in 0..(Len(fnResult) - 1) :
            fnResult[i + 1] =
                (IF i * PartialDen <= fnArgs.partial * fnArgs.steps
                 THEN fnArgs.cfg_scale
                 ELSE UnitScale)

\* C18 amended: at sampler step i (from 0) of `steps` timesteps the
\* dispatcher receives cfg_scale when (i + 1)/steps <= partial and 1.0
\* otherwise, for every steps >= 1 and every partial in [0, 1].
C18_ScaleByStepNumber ==
    fn = "sample" =>
        \A i \in 0..(Len(fnResult) - 1) :
            fnResult[i + 1] =
                (IF (i + 1) * PartialDen <= fnArgs.partial * fnArgs.steps
                 THEN fnArgs.cfg_scale
                 ELSE UnitScale)

\* C18 witness: two steps with partial = 1/2 and cfg_scale 7.5: the first
\* step is guided with 7.5, the second with 1.0.
C18_Witness ==
    /\ fn = "sample"
    /\ fnArgs.steps = 2
    /\ fnArgs.partial * 2 = PartialDen
    /\ fnArgs.cfg_scale = 75
    /\ fnResult = <<75, UnitScale>>

\* C19 (stated as claimed; refuted by the code): for every latent with
\* T_l >= 1 get_condition returns C_l + 1 channels, the last one the valid
\* mask: t2v has mask 0 everywhere; sr has mask 1 everywhere over
\* latent_blur; i2v has mask 1 exactly in frame 0 over the latent's frame 0;
\* v2v has mask 1 exactly in the first two frames over the latent's first
\* two frames; every other position is zero.
C19_ConditionByTask ==
    (fn = "get_condition" /\ ppc = "called" /\ fnArgs.task \in Tasks) =>
        LET latent == fnArgs.latent
            t == Len(latent)
            c == Len(latent[1])
            cond == fnResult.cond
            src == IF fnArgs.task = "sr" THEN fnArgs.latent_blur ELSE latent
            valid == CASE fnArgs.task = "t2v" -> {}
                       [] fnArgs.task = "sr" -> 1..t
                       [] fnArgs.task = "i2v" -> {1}
                       [] fnArgs.task = "v2v" -> {f \in 1..t : f <= 2}
        IN  /\ ~fnResult.raised
            /\ Len(cond) = t
            /\ \A f \in 1..t :
                  /\ Len(cond[f]) = c + 1
                  /\ cond[f][c + 1] = (IF f \in valid THEN 1 ELSE 0)
                  /\ \A ch \in 1..c :
                        cond[f][ch] = (IF f \in valid THEN src[f][ch] ELSE 0)

\* C19 amended: as claimed for every latent with T_l >= 2; for a latent of
\* one frame (T_l = 1) sr gives mask 1 over latent_blur, and t2v, i2v and
\* v2v all give the all-zero tensor, mask included.
C19_ConditionByTaskAndLength ==
    (fn = "get_condition" /\ ppc = "called" /\ fnArgs.task \in Tasks) =>
        LET latent == fnArgs.latent
            t == Len(latent)
            c == Len(latent[1])
            cond == fnResult.cond
            src == IF fnArgs.task = "sr" THEN fnArgs.latent_blur ELSE latent
            valid == CASE fnArgs.task = "sr" -> 1..t
                       [] fnArgs.task = "t2v" \/ t = 1 -> {}
                       [] fnArgs.task = "i2v" -> {1}
                       [] fnArgs.task = "v2v" -> {1, 2}
        IN  /\ ~fnResult.raised
            /\ Len(cond) = t
            /\ \A f \in 1..t :
                  /\ Len(cond[f]) = c + 1
                  /\ cond[f][c + 1] = (IF f \in valid THEN 1 ELSE 0)
                  /\ \A ch \in 1..c :
                        cond[f][ch] = (IF f \in valid THEN src[f][ch] ELSE 0)

\* C19 witness: v2v on a latent of three frames: the first two frames are
\* valid and hold the latent, the third is zero.
C19_Witness ==
    /\ fn = "get_condition"
    /\ ppc = "called"
    /\ fnArgs.task = "v2v"
    /\ Len(fnArgs.latent) = 3
    /\ fnResult.cond[2] = Append(fnArgs.latent[2], 1)
    /\ fnResult.cond[3] = [ch \in 1..(Len(fnArgs.latent[3]) + 1) |-> 0]

\* C20 (stated as claimed; refuted by the code): get_condition called with a
\* task tag outside {t2v, i2v, v2v, sr} raises and returns no conditioning
\* tensor, for every latent with T_l >= 1.
C20_UnknownTaskRaises ==
    (fn = "get_condition" /\ ppc = "called" /\ fnArgs.task \notin Tasks) =>
        /\ fnResult.raised
        /\ fnResult.cond = <<>>

\* C21: a GPU with total VRAM v is classified high_end when v >= 24 GB,
\* mid_range when 12 <= v < 24, entry (entry_level) when 8 <= v < 12 and low
\* (low_vram) when v < 8, with recommended swap depths 0, 8, 16 and 24; the
\* four tiers exhaust the GPUs and exclude each other.
C21_GpuTiers ==
    (fn = "get_gpu_profile" /\ ppc = "called" /\ fnArgs.cuda_available) =>
        LET v == fnArgs.total_memory
            tier == fnResult.profile
            swap == fnResult.recommended_blocks_to_swap
        IN  /\ tier \in {"high_end", "mid_range", "entry_level", "low_vram"}
            /\ tier = "high_end" <=> v >= 24 * GbUnits
            /\ tier = "mid_range" <=> (12 * GbUnits <= v /\ v < 24 * GbUnits)
            /\ tier = "entry_level" <=> (8 * GbUnits <= v /\ v < 12 * GbUnits)
            /\ tier = "low_vram" <=> v < 8 * GbUnits
            /\ swap = (CASE tier = "high_end" -> 0
                         [] tier = "mid_range" -> 8
                         [] tier = "entry_level" -> 16
                         [] tier = "low_vram" -> 24)

\* C21 witness: a GPU of exactly 12 GB is mid_range with swap depth 8.
C21_Witness ==
    /\ fn = "get_gpu_profile"
    /\ ppc = "called"
    /\ fnArgs.cuda_available
    /\ fnArgs.total_memory = 12 * GbUnits
    /\ fnResult.profile = "mid_range"
    /\ fnResult.recommended_blocks_to_swap = 8

\* C22: clear_all_caches never deletes an essential attribute (_modules,
\* _parameters, _buffers, the hook tables, _version, training,
\* _original_forward, _is_io_wrapped, _block_idx) from any DiT block.
C22_EssentialAttrsKept ==
    (fn = "clear_all_caches" /\ ppc = "called") =>
        \A idx \in 1..Len(fnArgs.runner.blocks) :
            (fnArgs.runner.blocks[idx] \cap essential_attrs)
                \subseteq fnResult.runner.blocks[idx]

\* C22 witness: a wrapped block that carried a cache attribute lost it and
\* still holds _original_forward and _modules.
C22_Witness ==
    /\ fn = "clear_all_caches"
    /\ ppc = "called"
    /\ \E idx \in 1..Len(fnArgs.runner.blocks) :
          /\ "kv_cache" \in fnArgs.runner.blocks[idx]
          /\ "kv_cache" \notin fnResult.runner.blocks[idx]
          /\ "_original_forward" \in fnResult.runner.blocks[idx]
          /\ "_modules" \in fnResult.runner.blocks[idx]

\* C23: clear_all_caches deletes a block attribute only if its name is
\* outside the essential set and contains 'cache' or 'temp'; every other
\* attribute of the block is still present afterwards.
C23_OnlyCacheOrTempDeleted ==
    (fn = "clear_all_caches" /\ ppc = "called") =>
        \A idx \in 1..Len(fnArgs.runner.blocks) :
            \A attr_name \in fnArgs.runner.blocks[idx] :
                attr_name \notin fnResult.runner.blocks[idx] =>
                    /\ attr_name \notin essential_attrs
                    /\ \/ Contains(attr_name, "cache")
                       \/ Contains(attr_name, "temp")

\* C24: no handler catches a GPU out-of-memory error: one raised by a GPU
\* operation of release_reserved_memory reaches the caller, so the function
\* never returns normally after one of its GPU operations ran out of memory.
C24_OomReachesCaller ==
    (fn = "release_reserved_memory" /\ ppc \in {"final", "called"}) =>
        fnResult.caught = "none"

\* C25: for a latent that fits in one tile (tile_size >= its height and
\* width) with tile_stride = tile_size, vae_decode with tiled = True returns
\* the same sample (values, shape and axis layout) as with tiled = False.
C25_OneTileEqualsStandard ==
    (/\ fn = "vae_decode"
     /\ ppc # "call"
     /\ fnArgs.tiled
     /\ fnArgs.tile_size[1] >= fnArgs.latent[2]
     /\ fnArgs.tile_size[2] >= fnArgs.latent[3]
     /\ fnArgs.tile_stride = fnArgs.tile_size) =>
        /\ ppc = "called"
        /\ fnResult.samples = standard_decode(fnArgs.latent).samples

\* C26: a latent of more than one latent frame handed to the tiled decoder
\* is not tiled: it is decoded by a single standard full-frame decode call.
C26_TemporalLatentNotTiled ==
    (/\ fn = "vae_decode"
     /\ ppc # "call"
     /\ fnArgs.tiled
     /\ fnArgs.latent[1] > 1) =>
        /\ fnResult.branch = "standard"
        /\ fnResult.decode_calls = 1

\* What inference did after its latest sampling.
SinceSampling ==
    LET last == CHOOSE i \in 1..Len(trace) :
                    /\ trace[i] = "sample"
                    /\ \A j \in (i + 1)..Len(trace) : trace[j] # "sample"
    IN  SubSeq(trace, last + 1, Len(trace))

\* C27: with block-swap active, between the DiT sampling of a batch and its
\* VAE decode inference synchronizes the device, deletes _cached_tensors
\* from the DiT blocks and empties the allocator cache, however
\* generation_loop reached inference.
C27_BlockSwapCleanupBeforeDecode ==
    (pc = "decode" /\ blockswap_is_active) =>
        {"synchronize", "drop_cached_tensors", "empty_cache"}
            \subseteq Range(SinceSampling)

\* C28: whenever inference has set the memory fraction below 1.0, the
\* fraction is 1.0 again when inference exits, by its normal return or by an
\* error raised during sampling or decode.
C28_FractionRestoredOnExit ==
    (\/ pc = "post"
     \/ pc = "finally" /\ raised.at \in {"sample", "decode"}) =>
        memory_fraction = 100

\* The origins the claim describes along an axis of length h.
ClaimedOrigins(h, t, s) ==
    {y \in 0..(h - 1) :
        /\ y % s = 0
        /\ ~(y > 0 /\ y + t > h /\ (y - s) + t >= h)}

Covering(Y, X) ==
    Cardinality({<<y, x>> \in Range(fnResult.origins_y) \X Range(fnResult.origins_x) :
        /\ y * upsampling_factor <= Y
        /\ Y < Min(y + fnArgs.tile_size[1], fnArgs.h) * upsampling_factor
        /\ x * upsampling_factor <= X
        /\ X < Min(x + fnArgs.tile_size[2], fnArgs.w) * upsampling_factor})

C32_TiledDecodeReturns ==
    (/\ fn = "vae_decode"
     /\ ppc # "call"
     /\ fnArgs.tiled
     /\ fnArgs.tile_stride[1] <= fnArgs.tile_size[1]
     /\ fnArgs.tile_stride[2] <= fnArgs.tile_size[2]) =>
        /\ ppc = "called"
        /\ fnResult.raised = "none"
        /\ Len(fnResult.samples) = 1

\* C33: for every N >= 1, batch_size >= 1 and temporal_overlap >= 0, when
\* the loop has run to its end every input frame index in [0, N) lies in the
\* frame range of a processed batch; the early stop on a short trailing batch
\* drops no frame that an earlier batch did not cover.
C33_EveryFrameCovered ==
    (pc \in {"concat", "returned"} /\ raised = NoError /\ N >= 1) =>
        \A f \in 0..(N - 1) :
            \E k \in 0..(Len(batch_samples) - 1) :
                /\ k * step <= f
                /\ f < Min(k * step + batch_size, N)

\* C33 witness: a run with overlap has returned after the early stop left
\* out the last origin.
C33_Witness ==
    /\ pc = "returned"
    /\ raised = NoError
    /\ temporal_overlap > 0
    /\ Len(batch_samples) >= 2
    /\ Len(batch_samples) < total_batches

C35_ProgressReachesTotal ==
    progress_callback =>
        /\ \A i \in 1..Len(progress_calls) :
              /\ progress_calls[i].batch_number = i
              /\ progress_calls[i].batch_number <= progress_calls[i].total
        /\ (pc = "returned" /\ raised = NoError /\ N >= 1) =>
              /\ Len(progress_calls) >= 1
              /\ progress_calls[Len(progress_calls)].batch_number
                    = progress_calls[Len(progress_calls)].total

\* C36: for every DiT weight dtype generation_loop, generation_step and
\* inference select the same compute/autocast dtype: what the generation code
\* cast (noise, conditions, text embeddings) is not cast to another dtype
\* inside inference, and the inner autocast dtype equals the outer one.
C36_OneDtypeAcrossLayers ==
    /\ ppc \in {"p_step_autocast", "p_infer", "p_sampler", "p_sampling"} =>
          /\ step_dtype = compute_dtype
          /\ step_autocast = autocast_dtype
    /\ ppc \in {"p_sampler", "p_sampling"} =>
          /\ target_dtype = step_dtype
          /\ text_dtype = compute_dtype
          /\ latents_dtype = step_dtype
    /\ ppc = "p_sampling" =>
          /\ Len(autocast) = 2
          /\ autocast[2] = autocast[1]

\* C37: the returned tensor is the concatenation, in batch order, of all the
\* per-batch outputs: the frames of batch j occupy the rows after those of
\* the batches before it, the length is the sum of the batch lengths, the
\* split of the batches into copy blocks of 500 leaves no trace, and without
\* batches an empty tensor is returned.
C37_ResultIsConcatenation ==
    (fn = "final_video_images" /\ ppc = "called") =>
        LET samples == fnArgs.batch_samples
            n == Len(samples)
            total == Len(fnResult)
        IN  /\ n = 0 => fnResult = <<>>
            /\ n > 0 =>
                  /\ fnResult[1] = <<1, 1>>
                  /\ fnResult[total] = <<n, Len(samples[n])>>
                  /\ \A r \in 1..(total - 1) :
                        LET j == fnResult[r][1]
                            k == fnResult[r][2]
                        IN  fnResult[r + 1] = IF k < Len(samples[j])
                                              THEN <<j, k + 1>>
                                              ELSE <<j + 1, 1>>

\* C37 witness: 501 batches, which fill one copy block and start a second,
\* have been copied; the batches are not all of one length.
C37_Witness ==
    /\ fn = "final_video_images"
    /\ ppc = "called"
    /\ Len(fnArgs.batch_samples) = block_size + 1
    /\ Len(fnArgs.batch_samples[1]) # Len(fnArgs.batch_samples[2])
    /\ fnResult[Len(fnResult)][1] = block_size + 1

C39_ModulesBackOnDevice ==
    (fn = "preinitialize_rope_cache" /\ ppc = "called") =>
        /\ fnResult.raised = "none"
        /\ \A i \in 1..fnResult.idx :
              fnResult.devices[i] = fnArgs.rope_modules[i].device

\* C40: on one GPU, a call of get_intelligent_memory_config whose model,
\* batch size and resolution are each at least those of another call never
\* returns fewer blocks_to_swap than that other call.
C40_BlocksMonotone ==
    (fn = "get_intelligent_memory_config" /\ ppc = "called") =>
        \A mt \in {"3b", "7b"}, bs \in 1..fnArgs.batch_size,
           res \in 1..fnArgs.resolution :
            (mt = "7b" => fnArgs.model_type = "7b") =>
                get_intelligent_memory_config(
                    fnArgs.cuda_available, fnArgs.total_memory,
                    mt, bs, res).blocks_to_swap
                <= fnResult.blocks_to_swap

====
